---- MODULE Spec2Model ----
(***************************************************************************)
(* A model of the syava-lang front end: the lexer and the recursive-       *)
(* descent parser of src/src/parse.rs, the two-phase type checker and the  *)
(* AST->MIR translator of src/src/ast/expr.rs.                             *)
(*                                                                         *)
(* The parser, the type checker and the translator are deterministic       *)
(* functions of their input, so each is a family of (RECURSIVE) operators  *)
(* that thread the mutable state the Rust code threads (the parser's       *)
(* peekahead, the union-find, the variables map, the MIR under             *)
(* construction).  The specifications draw an input from a bounded set and *)
(* apply the operations to it.                                             *)
(***************************************************************************)
EXTENDS Integers, Sequences, FiniteSets, TLC

VARIABLES
    source,     \* the program text the lexer was made for
    lexer,      \* the Lexer: the characters left, its readahead, its line
    toks,       \* Parser input: the token stream the lexer would deliver
    pc,         \* position of the driver: which operation ran last
    parsed,     \* result of the last parser entry point
    ast,        \* the ast::Function being compiled; its body is typed in place
    union_find, \* the function's UnionFind
    error,      \* the ParserError of the lexer, or the AstError (or the panic) that stopped the compilation
    mir         \* the outcome of the translation: value, continuation, raw MIR

vars == <<source, lexer, toks, pc, parsed, ast, union_find, error, mir>>

(***************************************************************************)
(* Bounds of the model.                                                    *)
(***************************************************************************)
MaxOps == 3         \* binary operators in a generated operand chain
MaxElseIf == 2      \* `else if` links in a generated if chain
MaxStmts == 2       \* statements in a generated function body
MaxItems == 4       \* pieces between the braces of a generated block
MaxBody == 6        \* characters after the `/*` of a generated source text
MaxText == 3        \* characters of a generated text of operators and names

(***************************************************************************)
(* Generic values.                                                         *)
(***************************************************************************)
NoneV == [kind |-> "None"]

(***************************************************************************)
(* Types (ty::Type).  A type is a base variant under `refs` layers of      *)
(* Reference; `w` is the integer width and `id` the inference id (0 while  *)
(* generate_inference_id has not run).                                     *)
(***************************************************************************)
MkType(r, v, w, id) == [refs |-> r, v |-> v, w |-> w, id |-> id]
TySInt(w) == MkType(0, "SInt", w, 0)
TyUInt(w) == MkType(0, "UInt", w, 0)
TyBool == MkType(0, "Bool", 0, 0)
TyUnit == MkType(0, "Unit", 0, 0)
TyDiverging == MkType(0, "Diverging", 0, 0)
TyInfer == MkType(0, "Infer", 0, 0)
TyInferInt == MkType(0, "InferInt", 0, 0)
TyRef(t) == [t EXCEPT !.refs = @ + 1]

(***************************************************************************)
(* Tokens (parse.rs, enum Token).  `s` carries an identifier's name, an    *)
(* operand's name or an integer's suffix, `n` an integer's value.          *)
(***************************************************************************)
Tok(t, s, n) == [t |-> t, s |-> s, n |-> n]
Kw(t) == Tok(t, "", 0)
Ident(name) == Tok("Ident", name, 0)
Integer(value, suffix) == Tok("Integer", suffix, value)
Operand(op) == Tok("Operand", op, 0)
NoTok == Tok("NoTok", "", 0)

token_ty(tok) ==
    CASE tok.t = "KeywordFn" -> "Item"
      [] tok.t \in {"KeywordLet", "CloseBrace"} -> "Statement"
      [] tok.t \in {"KeywordReturn", "KeywordTrue", "KeywordFalse",
                    "KeywordIf", "Ident", "Integer"} -> "Expression"
      [] tok.t = "Operand" -> "Operand"
      [] OTHER -> "Misc"

BinaryOperands ==
    {"Mul", "Div", "Rem", "Plus", "Minus", "Shl", "Shr", "And", "Xor", "Or",
     "EqualsEquals", "NotEquals", "LessThan", "LessThanEquals",
     "GreaterThan", "GreaterThanEquals", "AndAnd", "OrOr"}

\* Operand::precedence; 0 stands for the unreachable!() of Operand::Not.
precedence(op) ==
    CASE op \in {"Mul", "Div", "Rem"} -> 9
      [] op \in {"Plus", "Minus"} -> 8
      [] op \in {"Shl", "Shr"} -> 7
      [] op = "And" -> 6
      [] op = "Xor" -> 5
      [] op = "Or" -> 4
      [] op \in {"EqualsEquals", "NotEquals", "LessThan", "LessThanEquals",
                 "GreaterThan", "GreaterThanEquals"} -> 3
      [] op = "AndAnd" -> 2
      [] op = "OrOr" -> 1
      [] OTHER -> 0

\* TokenType: the five classes, Specific(tok) and AnyOf(toks).
TT(class) == [tt |-> class, toks |-> <<>>]
Specific(tok) == [tt |-> "Specific", toks |-> <<tok>>]
AnyOf(ts) == [tt |-> "AnyOf", toks |-> ts]

(***************************************************************************)
(* The lexer (parse.rs, struct Lexer).  The source is a sequence of        *)
(* one-character strings; l = [src, readahead, line] is the Lexer: the     *)
(* characters not yet read, the pushed-back character, the line counter.   *)
(* getc returns Some(c) as [some |-> TRUE, c |-> c] with the lexer after.  *)
(***************************************************************************)
\* `panic` is the assert! or the expect of the lexer that has failed
LexerNew(src) == [src |-> src, readahead |-> <<>>, line |-> 1, panic |-> NoneV]
LexerPanic(msg) == [kind |-> "Panic", msg |-> msg]

LexOk(tok, l) == [ok |-> TRUE, tok |-> tok, err |-> NoneV, l |-> l]
LexErr(e, l) == [ok |-> FALSE, tok |-> NoTok, err |-> e, l |-> l]
LexPanic(msg, l) == LexErr(LexerPanic(msg), [l EXCEPT !.panic = LexerPanic(msg)])
UnclosedComment == [kind |-> "UnclosedComment"]
InvalidToken(c, line) == [kind |-> "InvalidToken", token |-> c, line |-> line]

Digits == <<"0", "1", "2", "3", "4", "5", "6", "7", "8", "9">>
is_integer(c) == \E k \in 1..Len(Digits) : Digits[k] = c
digit_value(c) == (CHOOSE k \in 1..Len(Digits) : Digits[k] = c) - 1
is_start_of_ident(c) ==
    c \in {"a", "b", "c", "d", "e", "f", "g", "h", "i", "j", "k", "l", "m",
           "n", "o", "p", "q", "r", "s", "t", "u", "v", "w", "x", "y", "z",
           "A", "B", "C", "D", "E", "F", "G", "H", "I", "J", "K", "L", "M",
           "N", "O", "P", "Q", "R", "S", "T", "U", "V", "W", "X", "Y", "Z",
           "_"}
is_ident(c) == is_start_of_ident(c) \/ is_integer(c)
is_whitespace(c) == c \in {"\t", "\n", "\r", " "}

getc(l) ==
    IF l.readahead # <<>>
    THEN [some |-> TRUE, c |-> l.readahead[Len(l.readahead)],
          l |-> [l EXCEPT !.readahead = SubSeq(@, 1, Len(@) - 1)]]
    ELSE IF l.src # <<>>
    THEN [some |-> TRUE, c |-> Head(l.src), l |-> [l EXCEPT !.src = Tail(@)]]
    ELSE [some |-> FALSE, c |-> "", l |-> l]
\* an ungetc that pushes the character twice
ungetc_twice(l, c) == [l EXCEPT !.readahead = @ \o <<c, c>>]
\* assert!(self.readahead.len() == 0); self.readahead.push(c)
ungetc(l, c) ==
    [l EXCEPT !.readahead = Append(@, c),
              !.panic = IF @ = NoneV /\ Len(l.readahead) # 0
                        THEN LexerPanic("assertion failed: self.readahead.len() == 0")
                        ELSE @]
newline(l) == [l EXCEPT !.line = @ + 1]

\* the loop of Lexer::ident, also the suffix loop of an integer: the
\* characters of an identifier are appended to ret
RECURSIVE ident(_, _)
ident(l, ret) ==
    LET g == getc(l) IN
    IF g.some /\ is_ident(g.c) THEN ident(g.l, ret \o g.c)
    ELSE IF g.some THEN [s |-> ret, l |-> ungetc(g.l, g.c)]
    ELSE [s |-> ret, l |-> g.l]

\* the digit loop of an integer: the digits are pushed onto string
RECURSIVE integer_digits(_, _)
integer_digits(l, string) ==
    LET g == getc(l) IN
    IF g.some /\ is_integer(g.c) THEN integer_digits(g.l, Append(string, g.c))
    ELSE IF g.some THEN [string |-> string, l |-> ungetc(g.l, g.c)]
    ELSE [string |-> string, l |-> g.l]

\* string.parse::<u64>() on a run of digits: Err when the number is above
\* u64::MAX = 18446744073709551615, which is decided on the digits
U64Max ==
    <<"1", "8", "4", "4", "6", "7", "4", "4", "0", "7",
      "3", "7", "0", "9", "5", "5", "1", "6", "1", "5">>
RECURSIVE significant(_), digits_le(_, _), u64_value(_, _)
significant(string) ==
    IF string # <<>> /\ Head(string) = "0" THEN significant(Tail(string)) ELSE string
digits_le(a, b) ==
    IF a = <<>> THEN TRUE
    ELSE IF digit_value(Head(a)) # digit_value(Head(b))
    THEN digit_value(Head(a)) < digit_value(Head(b))
    ELSE digits_le(Tail(a), Tail(b))
parse_u64_is_ok(string) ==
    \/ Len(significant(string)) < Len(U64Max)
    \/ Len(significant(string)) = Len(U64Max) /\ digits_le(significant(string), U64Max)
u64_value(string, n) ==
    IF n = 0 THEN 0 ELSE u64_value(string, n - 1) * 10 + digit_value(string[n])

\* what block_comment does with the character read after a `*` or a `/`
\* that neither closes nor opens a comment
comment_second(h) ==
    IF h.some /\ h.c = "\n" THEN LexOk(NoTok, newline(h.l))
    ELSE IF ~h.some THEN LexErr(UnclosedComment, h.l)
    ELSE LexOk(NoTok, h.l)

RECURSIVE block_comment(_)
block_comment_star(h) ==
    IF h.some /\ h.c = "/" THEN LexOk(NoTok, h.l)
    ELSE IF comment_second(h).ok THEN block_comment(comment_second(h).l)
    ELSE comment_second(h)
block_comment_slash(h) ==
    IF h.some /\ h.c = "*"
    THEN IF block_comment(h.l).ok
         THEN block_comment(block_comment(h.l).l)
         ELSE block_comment(h.l)
    ELSE IF comment_second(h).ok THEN block_comment(comment_second(h).l)
    ELSE comment_second(h)
block_comment(l) ==
    LET g == getc(l) IN
    IF g.some /\ g.c = "*" THEN block_comment_star(getc(g.l))
    ELSE IF g.some /\ g.c = "/" THEN block_comment_slash(getc(g.l))
    ELSE IF g.some /\ g.c = "\n" THEN block_comment(newline(g.l))
    ELSE IF ~g.some THEN LexErr(UnclosedComment, g.l)
    ELSE block_comment(g.l)

RECURSIVE line_comment(_)
line_comment(l) ==
    LET g == getc(l) IN
    IF g.some /\ g.c = "\n" THEN newline(g.l)
    ELSE IF ~g.some THEN g.l
    ELSE line_comment(g.l)

RECURSIVE eat_whitespace(_)
eat_whitespace(l) ==
    LET g == getc(l) IN
    IF ~g.some THEN g.l
    ELSE IF ~is_whitespace(g.c) THEN ungetc(g.l, g.c)
    ELSE IF g.c = "\n" THEN eat_whitespace(newline(g.l))
    ELSE eat_whitespace(g.l)

keyword(s) ==
    CASE s = "fn" -> Kw("KeywordFn")
      [] s = "return" -> Kw("KeywordReturn")
      [] s = "let" -> Kw("KeywordLet")
      [] s = "if" -> Kw("KeywordIf")
      [] s = "else" -> Kw("KeywordElse")
      [] s = "true" -> Kw("KeywordTrue")
      [] s = "false" -> Kw("KeywordFalse")
      [] OTHER -> Ident(s)

\* an arm of next_token that reads one more character: `pairs` maps the
\* second characters that make a two-character token to that token, any
\* other character is pushed back and `single` returned
two_chars(h, pairs, single) ==
    IF h.some /\ h.c \in DOMAIN pairs THEN LexOk(pairs[h.c], h.l)
    ELSE IF h.some THEN LexOk(single, ungetc(h.l, h.c))
    ELSE LexOk(single, h.l)

\* the suffix loop, then string.parse::<u64>().expect(..)
integer_token(digits) ==
    IF parse_u64_is_ok(digits.string)
    THEN LexOk(Integer(u64_value(digits.string, Len(digits.string)),
                       ident(digits.l, "").s),
               ident(digits.l, "").l)
    ELSE LexPanic("we pushed something which wasn't 0...9 onto a string",
                  ident(digits.l, "").l)

RECURSIVE Lexer_next_token(_)
next_token_slash(h) ==
    IF h.some /\ h.c = "*"
    THEN IF block_comment(h.l).ok
         THEN Lexer_next_token(block_comment(h.l).l)
         ELSE block_comment(h.l)
    ELSE IF h.some /\ h.c = "/" THEN Lexer_next_token(line_comment(h.l))
    ELSE IF h.some THEN LexOk(Operand("Div"), ungetc(h.l, h.c))
    ELSE LexOk(Operand("Div"), h.l)
next_token_first(first, l) ==
    CASE first = "(" -> LexOk(Kw("OpenParen"), l)
      [] first = ")" -> LexOk(Kw("CloseParen"), l)
      [] first = "{" -> LexOk(Kw("OpenBrace"), l)
      [] first = "}" -> LexOk(Kw("CloseBrace"), l)
      [] first = ";" -> LexOk(Kw("Semicolon"), l)
      [] first = ":" -> LexOk(Kw("Colon"), l)
      [] first = "," -> LexOk(Kw("Comma"), l)
      [] first = "*" -> LexOk(Operand("Mul"), l)
      [] first = "%" -> LexOk(Operand("Rem"), l)
      [] first = "+" -> LexOk(Operand("Plus"), l)
      [] first = "-" ->
           two_chars(getc(l), ">" :> Kw("SkinnyArrow"), Operand("Minus"))
      [] first = "/" -> next_token_slash(getc(l))
      [] first = "!" ->
           two_chars(getc(l), "=" :> Operand("NotEquals"), Operand("Not"))
      [] first = "<" ->
           two_chars(getc(l), "<" :> Operand("Shl") @@ "=" :> Operand("LessThanEquals"),
                     Operand("LessThan"))
      [] first = ">" ->
           two_chars(getc(l), ">" :> Operand("Shr") @@ "=" :> Operand("GreaterThanEquals"),
                     Operand("GreaterThan"))
      [] first = "=" ->
           two_chars(getc(l), "=" :> Operand("EqualsEquals"), Kw("Equals"))
      [] first = "&" ->
           two_chars(getc(l), "&" :> Operand("AndAnd"), Operand("And"))
      [] first = "|" ->
           two_chars(getc(l), "|" :> Operand("OrOr"), Operand("Or"))
      [] first = "^" -> LexOk(Operand("Xor"), l)
      [] is_start_of_ident(first) ->
           LexOk(keyword(ident(l, first).s), ident(l, first).l)
      [] is_integer(first) -> integer_token(integer_digits(l, <<first>>))
      [] OTHER -> LexErr(InvalidToken(first, l.line), l)
Lexer_next_token(l) ==
    LET g == getc(eat_whitespace(l)) IN
    IF g.some THEN next_token_first(g.c, g.l) ELSE LexOk(Kw("Eof"), g.l)

(***************************************************************************)
(* AST constructors (ast/expr.rs, impl Expr "constructors").               *)
(***************************************************************************)
MkBlock(stmts, e) == [stmts |-> stmts, expr |-> e]
BlockExpr(e) == MkBlock(<<>>, e)

ExprCall(callee, args) ==
    [kind |-> "Call", callee |-> callee, args |-> args, ty |-> TyInfer]
ExprVar(name) == [kind |-> "Variable", name |-> name, ty |-> TyInfer]
ExprIfElse(cond, then, else) ==
    [kind |-> "If", condition |-> cond, then_value |-> then,
     else_value |-> else, ty |-> TyInfer]
ExprBlock(inner) == [kind |-> "Block", blk |-> inner, ty |-> TyInfer]
ExprIntLit(value) == [kind |-> "IntLiteral", value |-> value, ty |-> TyInferInt]
ExprIntLitWithTy(value, ty) == [kind |-> "IntLiteral", value |-> value, ty |-> ty]
ExprBoolLit(value) == [kind |-> "BoolLiteral", value |-> value, ty |-> TyBool]
ExprUnitLit == [kind |-> "UnitLiteral", ty |-> TyUnit]
ExprNeg(inner) == [kind |-> "Neg", inner |-> inner, ty |-> TyInfer]
ExprPos(inner) == [kind |-> "Pos", inner |-> inner, ty |-> TyInfer]
ExprNot(inner) == [kind |-> "Not", inner |-> inner, ty |-> TyInfer]
ExprRef(inner) == [kind |-> "Ref", inner |-> inner, ty |-> TyRef(TyInfer)]
ExprDeref(inner) == [kind |-> "Deref", inner |-> inner, ty |-> TyInfer]
ExprRet(ret) == [kind |-> "Return", ret |-> ret, ty |-> TyDiverging]
ExprAssign(dst, src) == [kind |-> "Assign", dst |-> dst, src |-> src, ty |-> TyUnit]
\* Operand::expr
ExprBinop(op, lhs, rhs) ==
    [kind |-> "Binop", op |-> op, lhs |-> lhs, rhs |-> rhs, ty |-> TyInfer]

StmtLet(name, ty, value) == [kind |-> "Let", name |-> name, ty |-> ty, value |-> value]
StmtExpr(e) == [kind |-> "Expr", e |-> e]

is_block_never(e) == FALSE
is_block(e) == e.kind \in {"If", "Block"}

(***************************************************************************)
(* Parser state and results.  p = [i, peek, panic]: i is the index of the  *)
(* next token the lexer delivers, peek the Parser.peekahead slot, panic    *)
(* records a failed assert!/unreachable!.  A result is Ok(val) or Err(e),  *)
(* with the parser state after the call.                                   *)
(***************************************************************************)
ParserNew == [i |-> 1, peek |-> NoTok, panic |-> FALSE]

Ok(v, p) == [ok |-> TRUE, val |-> v, err |-> NoneV, p |-> p]
Err(e, p) == [ok |-> FALSE, val |-> NoneV, err |-> e, p |-> p]
Panic(p) == Err([kind |-> "Panic"], [p EXCEPT !.panic = TRUE])

UnexpectedToken(found, expected) ==
    [kind |-> "UnexpectedToken", found |-> found, expected |-> expected]

\* try!(r) followed by the rest of the function, K
Try(r, K(_)) == IF r.ok THEN K(r) ELSE r

\* Lexer::next_token on a token-level input: Eof once the input is used up.
next_token(i) == IF i <= Len(toks) THEN toks[i] ELSE Kw("Eof")

get_token(p) ==
    IF p.peek # NoTok
    THEN Ok(p.peek, [p EXCEPT !.peek = NoTok])
    ELSE Ok(next_token(p.i), [p EXCEPT !.i = @ + 1])

peek_token(p) ==
    IF p.peek # NoTok
    THEN Ok(p.peek, p)
    ELSE Ok(next_token(p.i), [p EXCEPT !.i = @ + 1, !.peek = next_token(p.i)])

unget_token(p, token) ==
    IF p.peek # NoTok
    THEN [p EXCEPT !.panic = TRUE]
    ELSE [p EXCEPT !.peek = token]

\* the match on *expected in maybe_peek_ty
token_matches(token, expected) ==
    CASE expected.tt = "Specific" -> token = expected.toks[1]
      [] expected.tt = "AnyOf" ->
             \E k \in 1..Len(expected.toks) : expected.toks[k] = token
      [] OTHER -> token_ty(token) = expected.tt

maybe_peek_ty(p, expected) ==
    Try(peek_token(p), LAMBDA r :
        IF token_matches(r.val, expected) THEN r ELSE Ok(NoneV, r.p))

\* Err(UnexpectedToken { found: try!(self.get_token()), expected: expected })
unexpected_token(p, expected) ==
    Try(get_token(p), LAMBDA g : Err(UnexpectedToken(g.val, expected), g.p))

peek_ty(p, expected) ==
    Try(maybe_peek_ty(p, expected), LAMBDA r :
        IF r.val # NoneV THEN r ELSE unexpected_token(r.p, expected))

maybe_eat_ty(p, expected) ==
    Try(maybe_peek_ty(p, expected), LAMBDA r :
        IF r.val # NoneV THEN get_token(r.p) ELSE r)

eat_ty(p, expected) ==
    Try(maybe_eat_ty(p, expected), LAMBDA r :
        IF r.val # NoneV THEN r ELSE unexpected_token(r.p, expected))

maybe_eat(p, expected) == maybe_eat_ty(p, Specific(expected))
eat(p, expected) == eat_ty(p, Specific(expected))
maybe_peek(p, expected) == maybe_peek_ty(p, Specific(expected))

parse_ident(p) ==
    Try(get_token(p), LAMBDA g :
        IF g.val.t = "Ident"
        THEN Ok(g.val.s, g.p)
        ELSE Err(UnexpectedToken(g.val, Specific(Ident(""))), g.p))

\* the type a type name or an integer suffix stands for; NoneV for any other
named_ty_s32(s) == TySInt(32)
named_ty(s) ==
    CASE s = "s8" -> TySInt(8)
      [] s = "s16" -> TySInt(16)
      [] s = "s32" -> TySInt(32)
      [] s = "s64" -> TySInt(64)
      [] s = "u8" -> TyUInt(8)
      [] s = "u16" -> TyUInt(16)
      [] s = "u32" -> TyUInt(32)
      [] s = "u64" -> TyUInt(64)
      [] OTHER -> NoneV

RECURSIVE parse_ty(_)
parse_ty(p) ==
    Try(get_token(p), LAMBDA g :
        CASE g.val.t = "Ident" ->
               IF named_ty(g.val.s) # NoneV THEN Ok(named_ty(g.val.s), g.p)
               ELSE IF g.val.s = "bool" THEN Ok(TyBool, g.p)
               ELSE Err([kind |-> "UnknownType", found |-> g.val.s], g.p)
          [] g.val.t = "OpenParen" ->
               Try(eat(g.p, Kw("CloseParen")), LAMBDA c : Ok(TyUnit, c.p))
          [] g.val = Operand("And") ->
               Try(parse_ty(g.p), LAMBDA inner : Ok(TyRef(inner.val), inner.p))
          [] g.val = Operand("AndAnd") ->
               Try(parse_ty(g.p), LAMBDA inner : Ok(TyRef(TyRef(inner.val)), inner.p))
          [] OTHER ->
               Err(UnexpectedToken(g.val, AnyOf(<<Ident(""), Kw("OpenParen")>>)), g.p))

InvalidSuffix(suffix) == [kind |-> "InvalidSuffix", suffix |-> suffix]
ExpectedSemicolon == [kind |-> "ExpectedSemicolon"]

Left(x) == [side |-> "Left", v |-> x]
Right(x) == [side |-> "Right", v |-> x]

\* parse_binop's test `left_op.precedence() >= right_op.precedence()`.
folds_left_strict(left_op, right_op) == precedence(left_op) > precedence(right_op)
folds_left(left_op, right_op) == precedence(left_op) >= precedence(right_op)

RECURSIVE maybe_parse_single_expr(_), parse_single_expr(_),
          maybe_parse_expr(_), parse_expr(_), parse_stmt(_),
          parse_binop(_, _, _), parse_block(_), parse_block_loop(_, _),
          parse_call_args(_, _)

\* The `while let Some(_) = maybe_eat(Comma)` loop of a call's arguments.
parse_call_args(p, args) ==
    Try(maybe_eat(p, Kw("Comma")), LAMBDA m :
        IF m.val = NoneV
        THEN Ok(args, m.p)
        ELSE Try(parse_expr(m.p), LAMBDA e :
                 parse_call_args(e.p, Append(args, e.val))))

\* The prefix operators: parse_single_expr, then wrap the operand.
parse_unary(p, op) ==
    Try(parse_single_expr(p), LAMBDA inner :
        Ok(CASE op = "Minus" -> ExprNeg(inner.val)
             [] op = "Plus" -> ExprPos(inner.val)
             [] op = "Not" -> ExprNot(inner.val)
             [] op = "And" -> ExprRef(inner.val)
             [] op = "AndAnd" -> ExprRef(ExprRef(inner.val))
             [] op = "Mul" -> ExprDeref(inner.val),
           inner.p))

maybe_parse_single_expr(p) ==
    Try(get_token(p), LAMBDA g :
        CASE g.val.t = "Ident" ->
               Try(maybe_eat(g.p, Kw("OpenParen")), LAMBDA m :
                   IF m.val = NoneV
                   THEN Ok(ExprVar(g.val.s), m.p)
                   ELSE Try(maybe_parse_expr(m.p), LAMBDA first :
                        Try(IF first.val = NoneV
                            THEN Ok(<<>>, first.p)
                            ELSE parse_call_args(first.p, <<first.val>>), LAMBDA args :
                        Try(eat(args.p, Kw("CloseParen")), LAMBDA close :
                            Ok(ExprCall(g.val.s, args.val), close.p)))))
          [] g.val.t = "KeywordIf" ->
               Try(parse_expr(g.p), LAMBDA condition :
               Try(parse_block(condition.p), LAMBDA if_value :
               Try(maybe_eat(if_value.p, Kw("KeywordElse")), LAMBDA m :
               Try(IF m.val = NoneV
                   THEN Ok(BlockExpr(ExprUnitLit), m.p)
                   ELSE Try(peek_ty(m.p, AnyOf(<<Kw("OpenBrace"), Kw("KeywordIf")>>)),
                            \* the OpenBrace arm and the KeywordIf arm both
                            \* call parse_block
                            LAMBDA pk : parse_block(pk.p)), LAMBDA else_value :
                   Ok(ExprIfElse(condition.val, if_value.val, else_value.val),
                      else_value.p)))))
          [] g.val.t = "OpenBrace" ->
               Try(parse_block(unget_token(g.p, Kw("OpenBrace"))), LAMBDA b :
                   Ok(ExprBlock(b.val), b.p))
          [] g.val.t = "Integer" ->
               IF g.val.s = "" THEN Ok(ExprIntLit(g.val.n), g.p)
               ELSE IF named_ty(g.val.s) # NoneV
               THEN Ok(ExprIntLitWithTy(g.val.n, named_ty(g.val.s)), g.p)
               ELSE Err(InvalidSuffix(g.val.s), g.p)
          [] g.val.t = "OpenParen" ->
               Try(maybe_eat(g.p, Kw("CloseParen")), LAMBDA m :
                   IF m.val # NoneV
                   THEN Ok(ExprUnitLit, m.p)
                   ELSE Try(parse_expr(m.p), LAMBDA e :
                        Try(eat(e.p, Kw("CloseParen")), LAMBDA close :
                            Ok(e.val, close.p))))
          [] g.val.t = "Operand" /\ g.val.s \in {"Minus", "Plus", "Not", "And",
                                                 "AndAnd", "Mul"} ->
               parse_unary(g.p, g.val.s)
          [] g.val.t = "KeywordTrue" -> Ok(ExprBoolLit(TRUE), g.p)
          [] g.val.t = "KeywordFalse" -> Ok(ExprBoolLit(FALSE), g.p)
          [] g.val.t = "KeywordReturn" ->
               Try(maybe_parse_expr(g.p), LAMBDA m :
                   Ok(ExprRet(IF m.val # NoneV THEN m.val ELSE ExprUnitLit), m.p))
          [] OTHER -> Ok(NoneV, unget_token(g.p, g.val)))

parse_single_expr(p) ==
    Try(maybe_parse_single_expr(p), LAMBDA r :
        IF r.val # NoneV THEN r ELSE unexpected_token(r.p, TT("Expression")))

maybe_parse_expr(p) ==
    Try(maybe_parse_single_expr(p), LAMBDA lhs :
        IF lhs.val = NoneV THEN lhs
        ELSE Try(maybe_eat_ty(lhs.p, TT("Operand")), LAMBDA m :
                 IF m.val # NoneV THEN parse_binop(m.p, lhs.val, m.val.s)
                 ELSE Try(maybe_eat(m.p, Kw("Equals")), LAMBDA eq :
                          IF eq.val = NoneV THEN Ok(lhs.val, eq.p)
                          ELSE Try(parse_expr(eq.p), LAMBDA src :
                                   Ok(ExprAssign(lhs.val, src.val), src.p)))))

parse_expr(p) ==
    Try(parse_single_expr(p), LAMBDA lhs :
    Try(maybe_eat_ty(lhs.p, TT("Operand")), LAMBDA m :
        IF m.val # NoneV THEN parse_binop(m.p, lhs.val, m.val.s)
        ELSE Ok(lhs.val, m.p)))

\* the KeywordLet arm of parse_stmt
parse_let(p) ==
    Try(parse_ident(p), LAMBDA name :
    Try(maybe_eat(name.p, Kw("Colon")), LAMBDA colon :
    Try(IF colon.val # NoneV THEN parse_ty(colon.p)
                             ELSE Ok(TyInfer, colon.p), LAMBDA ty :
    Try(maybe_eat(ty.p, Kw("Equals")), LAMBDA eq :
    Try(IF eq.val # NoneV THEN parse_expr(eq.p)
                          ELSE Ok(NoneV, eq.p), LAMBDA value :
    Try(eat(value.p, Kw("Semicolon")), LAMBDA end :
        Ok(Left(StmtLet(name.val, ty.val, value.val)), end.p)))))))

parse_stmt(p) ==
    Try(maybe_parse_expr(p), LAMBDA m :
        IF m.val # NoneV
        THEN Try(maybe_eat(m.p, Kw("Semicolon")), LAMBDA semi :
                 IF semi.val # NoneV THEN Ok(Left(StmtExpr(m.val)), semi.p)
                 ELSE IF is_block(m.val)
                 THEN Try(maybe_peek(semi.p, Kw("CloseBrace")), LAMBDA close :
                          IF close.val # NoneV
                          THEN Ok(Right(m.val), close.p)
                          ELSE Ok(Left(StmtExpr(m.val)), close.p))
                 ELSE Ok(Right(m.val), semi.p))
        ELSE Try(eat_ty(m.p, TT("Statement")), LAMBDA st :
                 IF st.val.t = "KeywordLet" THEN parse_let(st.p)
                 ELSE Ok(NoneV, unget_token(st.p, Kw("CloseBrace")))))

parse_binop(p, lhs, left_op) ==
    Try(parse_single_expr(p), LAMBDA rhs :
    Try(maybe_eat_ty(rhs.p, TT("Operand")), LAMBDA m :
        IF m.val # NoneV
        THEN IF left_op = "Not" \/ m.val.s = "Not" THEN Panic(m.p)
             ELSE IF folds_left(left_op, m.val.s)
             THEN parse_binop(m.p, ExprBinop(left_op, lhs, rhs.val), m.val.s)
             ELSE Try(parse_binop(m.p, rhs.val, m.val.s), LAMBDA new_rhs :
                      Ok(ExprBinop(left_op, lhs, new_rhs.val), new_rhs.p))
        ELSE IF left_op = "Not" THEN Panic(m.p)
        ELSE Ok(ExprBinop(left_op, lhs, rhs.val), m.p)))

\* try!(self.eat(Token::CloseBrace)); Ok(ast::Block::new(body, expr))
parse_block_end(p, body, expr) ==
    Try(eat(p, Kw("CloseBrace")), LAMBDA c : Ok(MkBlock(body, expr), c.p))

\* The `while let Some(st) = parse_stmt()` loop of parse_block.
parse_block_loop_lenient(p, body) ==
    Try(parse_stmt(p), LAMBDA st :
        IF st.val = NoneV THEN parse_block_end(st.p, body, NoneV)
        ELSE parse_block_loop(st.p, Append(body, StmtExpr(st.val.v))))
parse_block_loop(p, body) ==
    Try(parse_stmt(p), LAMBDA st :
        IF st.val = NoneV THEN parse_block_end(st.p, body, NoneV)
        ELSE IF st.val.side = "Left"
        THEN parse_block_loop(st.p, Append(body, st.val.v))
        ELSE Try(parse_stmt(st.p), LAMBDA st2 :
                 IF st2.val # NoneV THEN Err(ExpectedSemicolon, st2.p)
                 ELSE parse_block_end(st2.p, body, st.val.v)))

parse_block(p) ==
    Try(eat(p, Kw("OpenBrace")), LAMBDA o : parse_block_loop(o.p, <<>>))

\* `name: ty` of Parser::function, appended to args
function_arg(p, name, args) ==
    Try(eat(p, Kw("Colon")), LAMBDA colon :
    Try(parse_ty(colon.p), LAMBDA ty :
        Ok(Append(args, [name |-> name, ty |-> ty.val]), ty.p)))

\* The `loop` over `, name: ty` of Parser::function.
RECURSIVE function_args(_, _)
function_args(p, args) ==
    Try(get_token(p), LAMBDA g :
        IF g.val.t = "Comma"
        THEN Try(parse_ident(g.p), LAMBDA name :
             Try(function_arg(name.p, name.val, args), LAMBDA more :
                 function_args(more.p, more.val)))
        ELSE IF g.val.t = "CloseParen" THEN Ok(args, g.p)
        ELSE Err(UnexpectedToken(g.val, AnyOf(<<Kw("Comma"), Kw("CloseParen")>>)), g.p))

function(p) ==
    Try(parse_ident(p), LAMBDA name :
    Try(eat(name.p, Kw("OpenParen")), LAMBDA open :
    Try(get_token(open.p), LAMBDA g :
    Try(CASE g.val.t = "Ident" ->
               Try(function_arg(g.p, g.val.s, <<>>), LAMBDA first :
                   function_args(first.p, first.val))
          [] g.val.t = "CloseParen" -> Ok(<<>>, g.p)
          [] OTHER -> Err(UnexpectedToken(g.val,
                              AnyOf(<<Ident(""), Kw("CloseParen")>>)), g.p), LAMBDA args :
    Try(maybe_eat(args.p, Kw("SkinnyArrow")), LAMBDA arrow :
    Try(IF arrow.val # NoneV THEN parse_ty(arrow.p)
                             ELSE Ok(TyUnit, arrow.p), LAMBDA ret_ty :
    Try(parse_block(ret_ty.p), LAMBDA body :
        Ok([kind |-> "Function", name |-> name.val, ret |-> ret_ty.val,
            args |-> args.val, body |-> body.val], body.p))))))))

item(p) ==
    Try(get_token(p), LAMBDA g :
        CASE g.val.t = "KeywordFn" -> function(g.p)
          [] g.val.t = "Eof" -> Err([kind |-> "ExpectedEof"], g.p)
          [] OTHER -> Err(UnexpectedToken(g.val, TT("Item")), g.p))

(***************************************************************************)
(* Union-find over inference variables (ty::UnionFind).  uf.bind[id] is    *)
(* NoneV while id is the unbound root of its class, and otherwise the type *)
(* the id is bound to: a concrete type, or the handle of another inference *)
(* variable (a union).                                                     *)
(***************************************************************************)
UnionFindNew == [bind |-> <<>>]

is_infer(t) == t.v \in {"Infer", "InferInt"}
is_int(t) == t.refs = 0 /\ t.v \in {"SInt", "UInt"}
is_final_type(t) == ~is_infer(t)

\* Type::generate_inference_id: an inference variable without an id gets a
\* fresh one
generate_inference_id(t, uf) ==
    IF is_infer(t) /\ t.id = 0
    THEN [ty |-> [t EXCEPT !.id = Len(uf.bind) + 1],
          uf |-> [uf EXCEPT !.bind = Append(@, NoneV)]]
    ELSE [ty |-> t, uf |-> uf]

\* the representative of t: bindings followed to a concrete type or to an
\* unbound inference variable, under the Reference layers met on the way
RECURSIVE find(_, _)
find(t, uf) ==
    IF is_infer(t) /\ t.id # 0 /\ uf.bind[t.id] # NoneV
    THEN find([uf.bind[t.id] EXCEPT !.refs = @ + t.refs], uf)
    ELSE t

bind_to(t, target, uf) == [ok |-> TRUE, uf |-> [uf EXCEPT !.bind[t.id] = target]]

\* unify on representatives
RECURSIVE unify_found(_, _, _)
unify_found(a, b, uf) ==
    CASE a = b -> [ok |-> TRUE, uf |-> uf]
      [] a = TyDiverging \/ b = TyDiverging -> [ok |-> TRUE, uf |-> uf]
      [] a.refs > 0 /\ b.refs > 0 ->
             unify_found([a EXCEPT !.refs = @ - 1], [b EXCEPT !.refs = @ - 1], uf)
      [] a.refs = 0 /\ a.v = "Infer" -> bind_to(a, b, uf)
      [] b.refs = 0 /\ b.v = "Infer" -> bind_to(b, a, uf)
      [] a.refs = 0 /\ a.v = "InferInt" /\ (is_int(b) \/ (b.refs = 0 /\ b.v = "InferInt")) ->
             bind_to(a, b, uf)
      [] b.refs = 0 /\ b.v = "InferInt" /\ is_int(a) -> bind_to(b, a, uf)
      [] OTHER -> [ok |-> FALSE, uf |-> uf]

\* UnionFind::unify
unify(a, b, uf) == unify_found(find(a, uf), find(b, uf), uf)

\* UnionFind::actual_ty: NoneV for a class that is still a generic Infer, and
\* SInt(32) for a class that is still InferInt
actual_ty_unresolved(t, uf) == find(t, uf)
actual_ty(t, uf) ==
    CASE find(t, uf).v = "Infer" -> NoneV
      [] find(t, uf).v = "InferInt" -> [find(t, uf) EXCEPT !.v = "SInt", !.w = 32, !.id = 0]
      [] OTHER -> find(t, uf)

(***************************************************************************)
(* The type checker (ast/expr.rs, impl Expr "typechecking").  The context  *)
(* c = [uf, variables] is the mutable state unify_type threads; `fun` is   *)
(* the enclosing ast::Function and `functions` the signature table.  A     *)
(* result carries the updated node (e) and context (c).                    *)
(***************************************************************************)
TcOk(e, c) == [ok |-> TRUE, err |-> NoneV, e |-> e, c |-> c]
TcErr(err, e, c) == [ok |-> FALSE, err |-> err, e |-> e, c |-> c]

CouldNotUnify(first, second) ==
    [kind |-> "CouldNotUnify", first |-> first, second |-> second]
UndefinedVariableName(name) == [kind |-> "UndefinedVariableName", name |-> name]
AstPanic == [kind |-> "Panic"]

\* an insert that keeps an earlier entry
insert_new(map, name, ty) ==
    [n \in DOMAIN map \cup {name} |-> IF n \in DOMAIN map THEN map[n] ELSE ty]
\* HashMap::insert on the variables map
insert(map, name, ty) ==
    [n \in DOMAIN map \cup {name} |-> IF n = name THEN ty ELSE map[n]]

\* function.args.get(name): the (index, type) of a parameter, or NoneV
get_arg(fun, name) ==
    IF \E k \in 1..Len(fun.args) : fun.args[k].name = name
    THEN LET k == CHOOSE k \in 1..Len(fun.args) : fun.args[k].name = name
         IN [num |-> k - 1, ty |-> fun.args[k].ty]
    ELSE NoneV

\* uf.unify(a, b).map_err(|()| CouldNotUnify { first, second, .. })
unified(e, a, b, c, first, second) ==
    IF unify(a, b, c.uf).ok
    THEN TcOk(e, [c EXCEPT !.uf = unify(a, b, c.uf).uf])
    ELSE TcErr(CouldNotUnify(first, second), e, c)

ArithmeticOps == {"Mul", "Div", "Rem", "Plus", "Minus", "Shl", "Shr", "And", "Xor", "Or"}
ComparisonOps == {"EqualsEquals", "NotEquals", "LessThan", "LessThanEquals",
                  "GreaterThan", "GreaterThanEquals"}

\* self.ty.generate_inference_id(uf) on entry of unify_type
with_id(e, c) == [e EXCEPT !.ty = generate_inference_id(e.ty, c.uf).ty]
after_id(e, c) == [c EXCEPT !.uf = generate_inference_id(e.ty, c.uf).uf]

\* the type a Return's operand is unified against
return_expected_to_unify(fun, to_unify) == to_unify
return_expected(fun, to_unify) == fun.ret_ty

\* the type both branch blocks of an If are checked against
if_branch_unconstrained(to_unify) == TyDiverging
if_branch_expected(to_unify) == to_unify

RECURSIVE unify_type(_, _, _, _, _), unify_kind(_, _, _, _, _),
          unify_args(_, _, _, _, _, _), typeck_stmts(_, _, _, _, _),
          typeck_block(_, _, _, _, _)

\* the `for (arg_ty, expr) in f.input().iter().zip(args)` loop of a Call
unify_args_skipped(self, i, input, c, fun, functions) == TcOk(self, c)
unify_args(self, i, input, c, fun, functions) ==
    IF i > Len(self.args) THEN TcOk(self, c)
    ELSE Try(unify_type(self.args[i], input[i], c, fun, functions), LAMBDA a :
             unify_args([self EXCEPT !.args[i] = a.e], i + 1, input, a.c,
                        fun, functions))

\* the match on self.kind of unify_type; self.ty has its inference id
unify_kind(self, to_unify, c, fun, functions) ==
    CASE self.kind \in {"IntLiteral", "BoolLiteral", "UnitLiteral"} ->
           unified(self, self.ty, to_unify, c, self.ty, to_unify)
      [] self.kind = "Variable" ->
           IF self.name \in DOMAIN c.variables
           THEN unified([self EXCEPT !.ty = c.variables[self.name]],
                        c.variables[self.name], to_unify, c,
                        c.variables[self.name], to_unify)
           ELSE IF get_arg(fun, self.name) # NoneV
           THEN unified([self EXCEPT !.ty = get_arg(fun, self.name).ty],
                        get_arg(fun, self.name).ty, to_unify, c,
                        get_arg(fun, self.name).ty, to_unify)
           ELSE TcErr(UndefinedVariableName(self.name), self, c)
      [] self.kind \in {"Pos", "Neg", "Not"} ->
           Try(unify_type(self.inner, to_unify, c, fun, functions), LAMBDA i :
               unified([self EXCEPT !.inner = i.e], self.ty, i.e.ty, i.c,
                       self.ty, i.e.ty))
      [] self.kind = "Ref" ->
           IF to_unify.refs > 0
           THEN Try(unify_type(self.inner, [to_unify EXCEPT !.refs = @ - 1], c,
                               fun, functions), LAMBDA i :
                    IF unify(self.ty, TyRef(i.e.ty), i.c.uf).ok
                    THEN TcOk([self EXCEPT !.inner = i.e],
                              [i.c EXCEPT !.uf = unify(self.ty, TyRef(i.e.ty), i.c.uf).uf])
                    ELSE TcErr(AstPanic, self, i.c))
           ELSE TcErr(CouldNotUnify(to_unify, self.inner.ty), self, c)
      [] self.kind = "Binop" /\ self.op \in ArithmeticOps ->
           Try(unify_type(self.lhs, self.ty, c, fun, functions), LAMBDA l :
           Try(unify_type(self.rhs, l.e.ty, l.c, fun, functions), LAMBDA r :
               unified([self EXCEPT !.lhs = l.e, !.rhs = r.e], self.ty, to_unify, r.c,
                       self.ty, to_unify)))
      [] self.kind = "Binop" /\ self.op \in ComparisonOps ->
           Try(unify_type(self.lhs, with_id(self.rhs, c).ty, after_id(self.rhs, c),
                          fun, functions), LAMBDA l :
           Try(unify_type(with_id(self.rhs, c), l.e.ty, l.c, fun, functions), LAMBDA r :
               unified([self EXCEPT !.ty = TyBool, !.lhs = l.e, !.rhs = r.e],
                       TyBool, to_unify, r.c, TyBool, to_unify)))
      [] self.kind = "Binop" /\ self.op \in {"AndAnd", "OrOr"} ->
           Try(unify_type(self.lhs, TyBool, c, fun, functions), LAMBDA l :
           Try(unify_type(self.rhs, TyBool, l.c, fun, functions), LAMBDA r :
               unified([self EXCEPT !.ty = TyBool, !.lhs = l.e, !.rhs = r.e],
                       TyBool, to_unify, r.c, to_unify, TyBool)))
      [] self.kind = "Binop" -> TcErr(AstPanic, self, c)
      [] self.kind = "Call" ->
           IF self.callee \notin DOMAIN functions
           THEN TcErr([kind |-> "FunctionDoesntExist", callee |-> self.callee], self, c)
           ELSE IF Len(functions[self.callee].input) # Len(self.args)
           THEN TcErr([kind |-> "IncorrectNumberOfArguments",
                       passed |-> Len(self.args),
                       expected |-> Len(functions[self.callee].input),
                       callee |-> self.callee], self, c)
           ELSE Try(unify_args([self EXCEPT !.ty = functions[self.callee].output], 1,
                               functions[self.callee].input, c, fun, functions),
                    LAMBDA a : unified(a.e, a.e.ty, to_unify, a.c, a.e.ty, to_unify))
      [] self.kind = "If" ->
           Try(unify_type(self.condition, TyBool, c, fun, functions), LAMBDA cond :
           Try(typeck_block(self.then_value, if_branch_expected(to_unify), cond.c,
                            fun, functions),
               LAMBDA then :
           Try(typeck_block(self.else_value, if_branch_expected(to_unify), then.c,
                            fun, functions),
               LAMBDA else :
               unified([self EXCEPT !.condition = cond.e, !.then_value = then.e,
                                    !.else_value = else.e],
                       self.ty, to_unify, else.c, self.ty, to_unify))))
      [] self.kind = "Block" ->
           Try(typeck_block(self.blk, to_unify, c, fun, functions), LAMBDA b :
               unified([self EXCEPT !.blk = b.e], self.ty, to_unify, b.c,
                       self.ty, to_unify))
      [] self.kind = "Return" ->
           Try(unify_type(self.ret, return_expected(fun, to_unify), c,
                          fun, functions), LAMBDA r :
               TcOk([self EXCEPT !.ty = TyDiverging, !.ret = r.e], r.c))
      [] self.kind = "Assign" ->
           IF self.dst \in DOMAIN c.variables
           THEN Try(unify_type(self.src, c.variables[self.dst], c, fun, functions),
                    LAMBDA src :
                    unified([self EXCEPT !.src = src.e], self.ty, to_unify, src.c,
                            TyUnit, to_unify))
           ELSE TcErr(UndefinedVariableName(self.dst), self, c)

\* Expr::unify_type
unify_type(e, to_unify, c, fun, functions) ==
    unify_kind(with_id(e, c), to_unify, after_id(e, c), fun, functions)

\* whether the statement loop of typeck_block breaks after this statement
stops_block_never(stmt) == FALSE
stops_block(stmt) == stmt.kind = "Expr" /\ stmt.e.kind = "Return"

\* the `for stmt in block.stmts.iter_mut()` loop of typeck_block, from the
\* i-th statement on; the result's `live` is live_blk after the loop
typeck_stmts(block, i, c, fun, functions) ==
    IF i > Len(block.stmts) THEN TcOk(block, c) @@ [live |-> TRUE]
    ELSE IF block.stmts[i].kind = "Let"
    THEN IF block.stmts[i].value # NoneV
         THEN Try(unify_type(block.stmts[i].value, with_id(block.stmts[i], c).ty,
                             after_id(block.stmts[i], c), fun, functions),
                  LAMBDA v :
                  typeck_stmts(
                      [block EXCEPT !.stmts[i] =
                          [with_id(block.stmts[i], c) EXCEPT !.value = v.e]],
                      i + 1,
                      [v.c EXCEPT !.variables =
                          insert(@, block.stmts[i].name, with_id(block.stmts[i], c).ty)],
                      fun, functions))
         ELSE typeck_stmts(
                  [block EXCEPT !.stmts[i] = with_id(block.stmts[i], c)],
                  i + 1,
                  [after_id(block.stmts[i], c) EXCEPT !.variables =
                      insert(@, block.stmts[i].name, with_id(block.stmts[i], c).ty)],
                  fun, functions)
    ELSE IF stops_block(block.stmts[i])
    THEN Try(unify_type(block.stmts[i].e, TyDiverging, c, fun, functions), LAMBDA r :
             TcOk([block EXCEPT !.stmts[i].e = r.e], r.c) @@ [live |-> FALSE])
    ELSE Try(unify_type(block.stmts[i].e,
                        generate_inference_id(TyInfer, c.uf).ty,
                        [c EXCEPT !.uf = generate_inference_id(TyInfer, c.uf).uf],
                        fun, functions), LAMBDA r :
             typeck_stmts([block EXCEPT !.stmts[i].e = r.e], i + 1, r.c,
                          fun, functions))

\* typeck_block without live_blk
typeck_block_live(block, to_unify, c, fun, functions) ==
    Try(typeck_stmts(block, 1, c, fun, functions), LAMBDA s :
        IF s.e.expr # NoneV
        THEN Try(unify_type(s.e.expr, to_unify, s.c, fun, functions), LAMBDA x :
                 TcOk([s.e EXCEPT !.expr = x.e], x.c))
        ELSE unified(s.e, to_unify, TyUnit, s.c, TyUnit, to_unify))

\* Expr::typeck_block
typeck_block(block, to_unify, c, fun, functions) ==
    Try(typeck_stmts(block, 1, c, fun, functions), LAMBDA s :
        IF ~s.live THEN TcOk(s.e, s.c)
        ELSE IF s.e.expr # NoneV
        THEN Try(unify_type(s.e.expr, to_unify, s.c, fun, functions), LAMBDA x :
                 TcOk([s.e EXCEPT !.expr = x.e], x.c))
        ELSE unified(s.e, to_unify, TyUnit, s.c, TyUnit, to_unify))

(***************************************************************************)
(* Phase 2 (finalize_block_ty, finalize_type).  The nodes are mutated in   *)
(* place, so a failing call leaves the node as far as it was finalized:    *)
(* TryIn puts the partly finalized child back into its parent.             *)
(***************************************************************************)
FinOk(e) == [ok |-> TRUE, err |-> NoneV, e |-> e]
FinErr(err, e) == [ok |-> FALSE, err |-> err, e |-> e]
TryIn(r, wrap(_), K(_)) == IF r.ok THEN K(r) ELSE [r EXCEPT !.e = wrap(r.e)]

NoActualType == [kind |-> "NoActualType"]
StatementsAfterReturn == [kind |-> "StatementsAfterReturn"]
UnopUnsupported(op, inner) == [kind |-> "UnopUnsupported", op |-> op, inner |-> inner]

\* every operator over every integer
unop_supports_int(kind, t) == t.refs = 0 /\ t.v \in {"SInt", "UInt"}
\* the operand types a unary operator supports
unop_supports(kind, t) ==
    CASE kind = "Pos" -> t.refs = 0 /\ t.v \in {"SInt", "UInt"}
      [] kind = "Neg" -> t.refs = 0 /\ t.v = "SInt"
      [] kind = "Not" -> t.refs = 0 /\ t.v \in {"SInt", "UInt", "Bool"}

unop_operand(kind) ==
    CASE kind = "Pos" -> "Plus" [] kind = "Neg" -> "Minus" [] kind = "Not" -> "Not"

\* self.ty = uf.actual_ty(self.ty), where actual_ty is Some
finalized_ref(self, uf) == [self EXCEPT !.ty = TyRef(actual_ty(self.ty, uf))]
finalized_kept(self, uf) == self
finalized(self, uf) == [self EXCEPT !.ty = actual_ty(self.ty, uf)]

RECURSIVE finalize_type(_, _, _), finalize_kind(_, _, _), finalize_args(_, _, _, _),
          finalize_stmts(_, _, _, _, _), finalize_block_ty(_, _, _)

\* the `for arg in args` loop of a Call
finalize_args(self, i, uf, fun) ==
    IF i > Len(self.args) THEN FinOk(self)
    ELSE TryIn(finalize_type(self.args[i], uf, fun),
               LAMBDA x : [self EXCEPT !.args[i] = x],
               LAMBDA a : finalize_args([self EXCEPT !.args[i] = a.e], i + 1, uf, fun))

\* the arms of finalize_type that start with self.ty = actual_ty(self.ty);
\* self.ty is already replaced
finalize_kind(self, uf, fun) ==
    CASE self.kind \in {"IntLiteral", "BoolLiteral", "UnitLiteral", "Variable"} ->
           FinOk(self)
      [] self.kind \in {"Pos", "Neg", "Not"} ->
           TryIn(finalize_type(self.inner, uf, fun),
                 LAMBDA x : [self EXCEPT !.inner = x],
                 LAMBDA i :
                 IF self.ty # i.e.ty THEN FinErr(AstPanic, [self EXCEPT !.inner = i.e])
                 ELSE IF unop_supports(self.kind, self.ty)
                 THEN FinOk([self EXCEPT !.inner = i.e])
                 ELSE FinErr(UnopUnsupported(unop_operand(self.kind), self.ty),
                             [self EXCEPT !.inner = i.e]))
      [] self.kind = "Ref" ->
           TryIn(finalize_type(self.inner, uf, fun),
                 LAMBDA x : [self EXCEPT !.inner = x],
                 LAMBDA i :
                 IF self.ty # TyRef(i.e.ty) THEN FinErr(AstPanic, [self EXCEPT !.inner = i.e])
                 ELSE FinOk([self EXCEPT !.inner = i.e]))
      [] self.kind = "Binop" ->
           TryIn(finalize_type(self.lhs, uf, fun),
                 LAMBDA x : [self EXCEPT !.lhs = x],
                 LAMBDA l :
           TryIn(finalize_type(self.rhs, uf, fun),
                 LAMBDA x : [self EXCEPT !.lhs = l.e, !.rhs = x],
                 LAMBDA r : FinOk([self EXCEPT !.lhs = l.e, !.rhs = r.e])))
      [] self.kind = "Call" -> finalize_args(self, 1, uf, fun)
      [] self.kind = "If" ->
           TryIn(finalize_type(self.condition, uf, fun),
                 LAMBDA x : [self EXCEPT !.condition = x],
                 LAMBDA cond :
           TryIn(finalize_block_ty(self.then_value, uf, fun),
                 LAMBDA x : [self EXCEPT !.condition = cond.e, !.then_value = x],
                 LAMBDA then :
           TryIn(finalize_block_ty(self.else_value, uf, fun),
                 LAMBDA x : [self EXCEPT !.condition = cond.e, !.then_value = then.e,
                                         !.else_value = x],
                 LAMBDA else : FinOk([self EXCEPT !.condition = cond.e,
                                                  !.then_value = then.e,
                                                  !.else_value = else.e]))))
      [] self.kind = "Block" ->
           TryIn(finalize_block_ty(self.blk, uf, fun),
                 LAMBDA x : [self EXCEPT !.blk = x],
                 LAMBDA b : FinOk([self EXCEPT !.blk = b.e]))

\* Expr::finalize_type
finalize_type(self, uf, fun) ==
    CASE self.kind = "Return" ->
           IF actual_ty(self.ty, uf) # TyDiverging THEN FinErr(AstPanic, self)
           ELSE TryIn(finalize_type(self.ret, uf, fun),
                      LAMBDA x : [finalized(self, uf) EXCEPT !.ret = x],
                      LAMBDA r : FinOk([finalized(self, uf) EXCEPT !.ret = r.e]))
      [] self.kind = "Assign" ->
           TryIn(finalize_type(self.src, uf, fun),
                 LAMBDA x : [self EXCEPT !.src = x],
                 LAMBDA src : FinOk([self EXCEPT !.src = src.e]))
      [] OTHER ->
           IF actual_ty(self.ty, uf) = NoneV THEN FinErr(NoActualType, self)
           ELSE finalize_kind(finalized(self, uf), uf, fun)

\* the `for stmt in block.stmts.iter_mut()` loop of finalize_block_ty, from
\* the i-th statement on; the result's `live` is live_blk after the loop
finalize_stmts(block, i, live, uf, fun) ==
    IF i > Len(block.stmts) THEN FinOk(block) @@ [live |-> live]
    ELSE IF ~live THEN FinErr(StatementsAfterReturn, block)
    ELSE IF block.stmts[i].kind = "Let"
    THEN IF actual_ty(block.stmts[i].ty, uf) = NoneV THEN FinErr(NoActualType, block)
         ELSE IF block.stmts[i].value # NoneV
         THEN TryIn(finalize_type(block.stmts[i].value, uf, fun),
                    LAMBDA x : [block EXCEPT !.stmts[i] =
                                   [finalized(block.stmts[i], uf) EXCEPT !.value = x]],
                    LAMBDA v : finalize_stmts(
                                   [block EXCEPT !.stmts[i] =
                                       [finalized(block.stmts[i], uf) EXCEPT !.value = v.e]],
                                   i + 1, live, uf, fun))
         ELSE finalize_stmts([block EXCEPT !.stmts[i] = finalized(block.stmts[i], uf)],
                             i + 1, live, uf, fun)
    ELSE TryIn(finalize_type(block.stmts[i].e, uf, fun),
               LAMBDA x : [block EXCEPT !.stmts[i].e = x],
               LAMBDA r : finalize_stmts([block EXCEPT !.stmts[i].e = r.e], i + 1,
                                         live /\ block.stmts[i].e.kind # "Return",
                                         uf, fun))

\* Expr::finalize_block_ty
finalize_block_ty(block, uf, fun) ==
    Try(finalize_stmts(block, 1, TRUE, uf, fun), LAMBDA s :
        IF s.e.expr = NoneV THEN FinOk(s.e)
        ELSE IF ~s.live THEN FinErr(StatementsAfterReturn, s.e)
        ELSE TryIn(finalize_type(s.e.expr, uf, fun),
                   LAMBDA x : [s.e EXCEPT !.expr = x],
                   LAMBDA x : FinOk([s.e EXCEPT !.expr = x.e])))

(***************************************************************************)
(* The MIR builder (mir::Function, mir::Block, mir::Value).  A block is    *)
(* named by its index in raw.blocks; `join` is the wiring if_else gives a  *)
(* block: the temporary its finish() writes and the block it jumps to.     *)
(***************************************************************************)
new_function(ret_ty, params) ==
    [ret |-> ret_ty, params |-> params, locals |-> <<>>, temps |-> <<>>,
     blocks |-> <<[stmts |-> <<>>, term |-> <<>>, join |-> NoneV]>>]
\* mir::Block, a handle on the id-th block of the function
BlockId(id) == [id |-> id]
EntryBlock == BlockId(1)

LvLocal(n) == [lv |-> "Local", n |-> n]
LvTemp(n) == [lv |-> "Temp", n |-> n]
LvParam(n) == [lv |-> "Param", n |-> n]
LvReturn == [lv |-> "Return"]

const_int(n, ty) == [val |-> "Const", c |-> n, ty |-> ty]
const_bool(b) == [val |-> "Const", c |-> b, ty |-> TyBool]
const_unit == [val |-> "Const", c |-> "()", ty |-> TyUnit]
value_local(var, raw) == [val |-> "Use", of |-> var, ty |-> raw.locals[var.n + 1]]
value_param(num, raw) == [val |-> "Use", of |-> LvParam(num), ty |-> raw.params[num + 1]]
value_temp(n, ty) == [val |-> "Use", of |-> LvTemp(n), ty |-> ty]

new_local(raw, ty) == [raw EXCEPT !.locals = Append(@, ty)]
new_temp(raw, ty) == [raw EXCEPT !.temps = Append(@, ty)]
new_block(raw, join) ==
    [raw EXCEPT !.blocks = Append(@, [stmts |-> <<>>, term |-> <<>>, join |-> join])]

write_to_var(raw, blk, lvalue, rvalue) ==
    [raw EXCEPT !.blocks[blk.id].stmts = Append(@, [dst |-> lvalue, src |-> rvalue])]
write_to_tmp(raw, blk, rvalue, ty) ==
    write_to_var(new_temp(raw, ty), blk, LvTemp(Len(raw.temps)), rvalue)
\* a block's `term` is the sequence of the terminators it was given
terminate(raw, blk, term) == [raw EXCEPT !.blocks[blk.id].term = Append(@, term)]

early_ret_unterminated(raw, blk, value) == write_to_var(raw, blk, LvReturn, value)
early_ret(raw, blk, value) ==
    terminate(write_to_var(raw, blk, LvReturn, value), blk, [term |-> "Return"])
finish_without_result(raw, blk, value) ==
    IF raw.blocks[blk.id].join = NoneV THEN early_ret(raw, blk, value)
    ELSE terminate(raw, blk, [term |-> "Goto", target |-> raw.blocks[blk.id].join.blk])
finish(raw, blk, value) ==
    IF raw.blocks[blk.id].join = NoneV THEN early_ret(raw, blk, value)
    ELSE terminate(write_to_var(raw, blk, raw.blocks[blk.id].join.res, value), blk,
                   [term |-> "Goto", target |-> raw.blocks[blk.id].join.blk])

\* Block::if_else: the blocks are then = n + 1, else = n + 2, join = n + 3
\* for n blocks so far, and the result is the new temporary
if_else(raw, blk, ty, cond) ==
    new_block(
      new_block(
        new_block(
          terminate(new_temp(raw, ty), blk,
                    [term |-> "If", cond |-> cond,
                     then |-> BlockId(Len(raw.blocks) + 1),
                     else |-> BlockId(Len(raw.blocks) + 2)]),
          [res |-> LvTemp(Len(raw.temps)), blk |-> BlockId(Len(raw.blocks) + 3)]),
        [res |-> LvTemp(Len(raw.temps)), blk |-> BlockId(Len(raw.blocks) + 3)]),
      raw.blocks[blk.id].join)

\* the type of the temporary an operator's value is written to
op_ty(op, operands) ==
    CASE op \in ComparisonOps -> TyBool
      [] op = "Ref" -> TyRef(operands[1].ty)
      [] OTHER -> operands[1].ty

(***************************************************************************)
(* AST -> MIR (ast/expr.rs, impl Expr "into mir").  m = [raw, locals] is   *)
(* the mutable state: function.raw and the locals map.  A result is the    *)
(* value, the continuation block (NoneV after a return) and m; ok is FALSE *)
(* when the translator panics.                                             *)
(***************************************************************************)
TrOk(v, blk, m) == [ok |-> TRUE, ice |-> NoneV, v |-> v, blk |-> blk, m |-> m]
TrPanic(ice, m) == [ok |-> FALSE, ice |-> ice, v |-> const_unit, blk |-> NoneV, m |-> m]

NotFinalType(e) == [kind |-> "not final type", e |-> e]
UnknownVariable(name) == [kind |-> "ICE: unknown variable", name |-> name]

\* mir::Value::{pos, neg, not, ref_, add, ..., gte, call}: the value is
\* written to a fresh temporary of blk
emit(m, blk, rvalue, ty) ==
    TrOk(value_temp(Len(m.raw.temps), ty), blk,
         [m EXCEPT !.raw = write_to_tmp(@, blk, rvalue, ty)])

RECURSIVE translate(_, _, _, _, _), translate_kind(_, _, _, _, _),
          translate_args(_, _, _, _, _, _, _), translate_stmts(_, _, _, _, _, _),
          translate_block(_, _, _, _, _)

\* the `for arg in args` loop of a Call
translate_args_eager(self, i, mir_args, blk, m, fun, fn_types) ==
    IF i > Len(self.args)
    THEN emit(m, blk, [rv |-> "Call", callee |-> self.callee, args |-> mir_args],
              fn_types[self.callee].output)
    ELSE Try(translate(self.args[i], blk, m, fun, fn_types), LAMBDA a :
             translate_args(self, i + 1, Append(mir_args, a.v),
                            IF a.blk = NoneV THEN blk ELSE a.blk, a.m, fun, fn_types))
translate_args(self, i, mir_args, blk, m, fun, fn_types) ==
    IF i > Len(self.args)
    THEN emit(m, blk, [rv |-> "Call", callee |-> self.callee, args |-> mir_args],
              fn_types[self.callee].output)
    ELSE Try(translate(self.args[i], blk, m, fun, fn_types), LAMBDA a :
             IF a.blk = NoneV THEN TrOk(const_unit, NoneV, a.m)
             ELSE translate_args(self, i + 1, Append(mir_args, a.v), a.blk, a.m,
                                 fun, fn_types))

\* the match on self.kind of translate
translate_kind(self, blk, m, fun, fn_types) ==
    CASE self.kind = "IntLiteral" -> TrOk(const_int(self.value, self.ty), blk, m)
      [] self.kind = "BoolLiteral" -> TrOk(const_bool(self.value), blk, m)
      [] self.kind = "UnitLiteral" -> TrOk(const_unit, blk, m)
      [] self.kind = "Variable" ->
           IF self.name \in DOMAIN m.locals
           THEN TrOk(value_local(m.locals[self.name], m.raw), blk, m)
           ELSE IF get_arg(fun, self.name) # NoneV
           THEN TrOk(value_param(get_arg(fun, self.name).num, m.raw), blk, m)
           ELSE TrPanic(UnknownVariable(self.name), m)
      [] self.kind \in {"Pos", "Neg", "Not", "Ref"} ->
           Try(translate(self.inner, blk, m, fun, fn_types), LAMBDA i :
               IF i.blk # NoneV
               THEN emit(i.m, i.blk, [rv |-> "UnOp", op |-> self.kind, inner |-> i.v],
                         op_ty(self.kind, <<i.v>>))
               ELSE TrOk(const_unit, NoneV, i.m))
      [] self.kind = "Binop" /\ self.op = "AndAnd" ->
           translate([ExprIfElse(ExprNot(self.lhs),
                                 BlockExpr(ExprBoolLit(FALSE)), BlockExpr(self.rhs))
                         EXCEPT !.ty = self.ty],
                     blk, m, fun, fn_types)
      [] self.kind = "Binop" /\ self.op = "OrOr" ->
           translate([ExprIfElse(self.lhs,
                                 BlockExpr(ExprBoolLit(TRUE)), BlockExpr(self.rhs))
                         EXCEPT !.ty = self.ty],
                     blk, m, fun, fn_types)
      [] self.kind = "Binop" ->
           Try(translate(self.lhs, blk, m, fun, fn_types), LAMBDA l :
               IF l.blk = NoneV THEN TrOk(l.v, NoneV, l.m)
               ELSE Try(translate(self.rhs, l.blk, l.m, fun, fn_types), LAMBDA r :
                        IF r.blk = NoneV THEN TrOk(r.v, NoneV, r.m)
                        ELSE IF self.op = "Not" THEN TrPanic(AstPanic, r.m)
                        ELSE emit(r.m, r.blk,
                                  [rv |-> "BinOp", op |-> self.op, lhs |-> l.v, rhs |-> r.v],
                                  op_ty(self.op, <<l.v, r.v>>))))
      [] self.kind = "Call" -> translate_args(self, 1, <<>>, blk, m, fun, fn_types)
      [] self.kind = "If" ->
           Try(translate(self.condition, blk, m, fun, fn_types), LAMBDA cond :
               IF cond.blk = NoneV THEN TrOk(const_unit, NoneV, cond.m)
               ELSE
           Try(translate_block(self.then_value, BlockId(Len(cond.m.raw.blocks) + 1),
                               [cond.m EXCEPT !.raw = if_else(@, cond.blk, self.ty, cond.v)],
                               fun, fn_types), LAMBDA then :
           Try(translate_block(self.else_value, BlockId(Len(cond.m.raw.blocks) + 2),
                               IF then.blk = NoneV THEN then.m
                               ELSE [then.m EXCEPT !.raw = finish(@, then.blk, then.v)],
                               fun, fn_types), LAMBDA else :
               TrOk(value_temp(Len(cond.m.raw.temps), self.ty),
                    BlockId(Len(cond.m.raw.blocks) + 3),
                    IF else.blk = NoneV THEN else.m
                    ELSE [else.m EXCEPT !.raw = finish(@, else.blk, else.v)]))))
      [] self.kind = "Return" ->
           Try(translate(self.ret, blk, m, fun, fn_types), LAMBDA r :
               TrOk(const_unit, NoneV,
                    IF r.blk = NoneV THEN r.m
                    ELSE [r.m EXCEPT !.raw = early_ret(@, r.blk, r.v)]))
      [] self.kind = "Assign" ->
           IF self.dst \notin DOMAIN m.locals /\ get_arg(fun, self.dst) = NoneV
           THEN TrPanic(UnknownVariable(self.dst), m)
           ELSE Try(translate(self.src, blk, m, fun, fn_types), LAMBDA src :
                    TrOk(const_unit, src.blk,
                         IF src.blk = NoneV THEN src.m
                         ELSE [src.m EXCEPT !.raw =
                                  write_to_var(@, src.blk,
                                      IF self.dst \in DOMAIN m.locals
                                      THEN m.locals[self.dst]
                                      ELSE LvParam(get_arg(fun, self.dst).num),
                                      src.v)]))
      [] self.kind = "Block" -> translate_block(self.blk, blk, m, fun, fn_types)

\* Expr::translate
translate(self, blk, m, fun, fn_types) ==
    IF ~is_final_type(self.ty) THEN TrPanic(NotFinalType(self), m)
    ELSE translate_kind(self, blk, m, fun, fn_types)

\* `block` after a statement: block.take() left it None, and it is set
\* again only when the statement's translation v has a continuation
block_after_kept(v, blk) == IF v.blk = NoneV THEN blk ELSE v.blk
block_after(v, blk) == v.blk

\* the `for stmt in body.stmts` loop of translate_block, from the i-th
\* statement on; the result's blk is `block` after the loop
translate_stmts(body, i, blk, m, fun, fn_types) ==
    IF i > Len(body.stmts) \/ blk = NoneV THEN TrOk(const_unit, blk, m)
    ELSE IF body.stmts[i].kind = "Let"
    THEN IF body.stmts[i].value # NoneV
         THEN Try(translate(body.stmts[i].value, blk,
                            [raw |-> new_local(m.raw, body.stmts[i].ty),
                             locals |-> insert(m.locals, body.stmts[i].name,
                                               LvLocal(Len(m.raw.locals)))],
                            fun, fn_types), LAMBDA v :
                  translate_stmts(body, i + 1, block_after(v, blk),
                      IF v.blk = NoneV THEN v.m
                      ELSE [v.m EXCEPT !.raw =
                               write_to_var(@, v.blk, LvLocal(Len(m.raw.locals)), v.v)],
                      fun, fn_types))
         ELSE translate_stmts(body, i + 1, blk,
                  [raw |-> new_local(m.raw, body.stmts[i].ty),
                   locals |-> insert(m.locals, body.stmts[i].name,
                                     LvLocal(Len(m.raw.locals)))],
                  fun, fn_types)
    ELSE Try(translate(body.stmts[i].e, blk, m, fun, fn_types), LAMBDA v :
             translate_stmts(body, i + 1, block_after(v, blk),
                 IF v.blk = NoneV THEN v.m
                 ELSE [v.m EXCEPT !.raw = write_to_tmp(@, v.blk, v.v, v.v.ty)],
                 fun, fn_types))

\* Expr::translate_block
translate_block(body, blk, m, fun, fn_types) ==
    Try(translate_stmts(body, 1, blk, m, fun, fn_types), LAMBDA s :
        IF body.expr = NoneV THEN TrOk(const_unit, s.blk, s.m)
        ELSE IF s.blk = NoneV THEN TrOk(const_unit, NoneV, s.m)
        ELSE translate(body.expr, s.blk, s.m, fun, fn_types))

(***************************************************************************)
(* Parser inputs.                                                          *)
(***************************************************************************)
OperandNames == <<"a", "b", "c", "d", "e", "f", "g", "h">>

\* `a op1 b op2 c ...` with k operators, f[i] the i-th operator
ChainOf(f, k) ==
    [i \in 1..(2 * k + 1) |->
        IF i % 2 = 1 THEN Ident(OperandNames[(i + 1) \div 2])
                     ELSE Operand(f[i \div 2])]

\* the operators of the generated chains: every precedence level, and two
\* operators of a level where the level has two
ChainOps ==
    {"Mul", "Div", "Plus", "Minus", "Shl", "Shr", "And", "Xor", "Or",
     "EqualsEquals", "LessThan", "AndAnd", "OrOr"}

OperandChains ==
    UNION {{ChainOf(f, k) : f \in [1..k -> ChainOps]} : k \in 1..MaxOps}

IfPiece(n) ==
    <<Kw("KeywordIf"), Ident("c"), Kw("OpenBrace"), Integer(n, ""), Kw("CloseBrace")>>
ElsePiece == <<Kw("KeywordElse"), Kw("OpenBrace"), Integer(0, ""), Kw("CloseBrace")>>

\* `if c {k} else if c {k-1} ... else if c {0}` with k `else if` links
RECURSIVE IfChain(_)
IfChain(k) ==
    IF k = 0 THEN IfPiece(0)
    ELSE IfPiece(k) \o <<Kw("KeywordElse")>> \o IfChain(k - 1)

IfChains ==
    {IfChain(k) : k \in 0..MaxElseIf} \cup {IfChain(k) \o ElsePiece : k \in 0..MaxElseIf}

FnMainS32 ==
    <<Kw("KeywordFn"), Ident("main"), Kw("OpenParen"), Kw("CloseParen"),
      Kw("SkinnyArrow"), Ident("s32"), Kw("OpenBrace")>>
IfReturns ==
    <<Kw("KeywordIf"), Integer(1, ""), Operand("GreaterThan"), Integer(2, ""),
      Kw("OpenBrace"), Kw("KeywordReturn"), Integer(1, ""), Kw("CloseBrace"),
      Kw("KeywordElse"),
      Kw("OpenBrace"), Kw("KeywordReturn"), Integer(2, ""), Kw("CloseBrace")>>

\* tests.rs: fn main() -> s32 { if 1 > 2 {return 1} else {return 2}; }
FunctionWithoutStatement ==
    FnMainS32 \o IfReturns \o <<Kw("Semicolon"), Kw("CloseBrace")>>
\* tests.rs: fn main() -> s32 { return 42; }
SimpleFunction ==
    FnMainS32 \o <<Kw("KeywordReturn"), Integer(42, ""), Kw("Semicolon"), Kw("CloseBrace")>>
\* tests.rs: fn main() { return true; }
WrongReturnMainType ==
    <<Kw("KeywordFn"), Ident("main"), Kw("OpenParen"), Kw("CloseParen"), Kw("OpenBrace"),
      Kw("KeywordReturn"), Kw("KeywordTrue"), Kw("Semicolon"), Kw("CloseBrace")>>

Programs ==
    {FunctionWithoutStatement, SimpleFunction, WrongReturnMainType,
     FnMainS32 \o IfReturns \o <<Kw("CloseBrace")>>,
     FnMainS32 \o IfReturns \o <<Integer(3, ""), Kw("CloseBrace")>>,
     FnMainS32 \o <<Integer(3, ""), Integer(4, ""), Kw("CloseBrace")>>,
     <<>>}

\* the pieces generated blocks are made of: `if c {1}`, `{2}`, `x`, `;`,
\* `let v = 1;` and `- x`, which continues an expression or starts one
PieceNames == {"if", "blk", "x", "semi", "let", "mx"}
Piece(name) ==
    CASE name = "if" -> IfPiece(1)
      [] name = "blk" -> <<Kw("OpenBrace"), Integer(2, ""), Kw("CloseBrace")>>
      [] name = "x" -> <<Ident("x")>>
      [] name = "semi" -> <<Kw("Semicolon")>>
      [] name = "let" -> <<Kw("KeywordLet"), Ident("v"), Kw("Equals"), Integer(1, ""),
                          Kw("Semicolon")>>
      [] name = "mx" -> <<Operand("Minus"), Ident("x")>>
RECURSIVE Pieces(_)
Pieces(ps) == IF ps = <<>> THEN <<>> ELSE Piece(Head(ps)) \o Pieces(Tail(ps))
BlockOf(ps) == <<Kw("OpenBrace")>> \o Pieces(ps) \o <<Kw("CloseBrace")>>
BlockInputs ==
    UNION {{BlockOf(ps) : ps \in [1..k -> PieceNames]} : k \in 0..MaxItems}

ParserInputs == OperandChains \cup IfChains \cup Programs \cup BlockInputs

(***************************************************************************)
(* The parser specification: an input is drawn, then one of the parser's   *)
(* entry points is applied to a fresh Parser over it.                      *)
(***************************************************************************)
InitParse ==
    /\ source = <<>>
    /\ lexer = NoneV
    /\ toks \in ParserInputs
    /\ pc = "start"
    /\ parsed = NoneV
    /\ ast = NoneV
    /\ union_find = NoneV
    /\ error = NoneV
    /\ mir = NoneV

\* Parser::parse_expr on a fresh parser
ParseExpr ==
    /\ pc = "start"
    /\ parsed' = parse_expr(ParserNew)
    /\ pc' = "parse_expr"
    /\ UNCHANGED <<source, lexer, toks, ast, union_find, error, mir>>

\* Parser::item on a fresh parser
ParseItem ==
    /\ pc = "start"
    /\ parsed' = item(ParserNew)
    /\ pc' = "item"
    /\ UNCHANGED <<source, lexer, toks, ast, union_find, error, mir>>

\* Parser::parse_block on a fresh parser
ParseBlock ==
    /\ pc = "start"
    /\ parsed' = parse_block(ParserNew)
    /\ pc' = "parse_block"
    /\ UNCHANGED <<source, lexer, toks, ast, union_find, error, mir>>

NextParse == ParseExpr \/ ParseItem \/ ParseBlock

SpecParse == InitParse /\ [][NextParse]_vars

(***************************************************************************)
(* The lexer specification: the source is a block comment opener followed  *)
(* by up to MaxBody characters, or an integer literal; next_token is       *)
(* called until it returns Eof or an error, toks collects the tokens it    *)
(* delivered, and the parser then reads an expression from them.           *)
(***************************************************************************)
CommentChars == {"/", "*", "a", "\n"}
Texts(n) == UNION {[1..k -> CommentChars] : k \in 0..n}
CommentSources == {<<"/", "*">> \o body : body \in Texts(MaxBody)}

\* literals: digits, then nothing, a type name or something else
LiteralDigits == {<<"1">>, <<"4", "2">>, <<"0", "7">>, <<"1", "0", "0">>}
LiteralSuffixes ==
    {<<>>, <<"s", "8">>, <<"s", "1", "6">>, <<"s", "3", "2">>, <<"s", "6", "4">>,
     <<"u", "8">>, <<"u", "1", "6">>, <<"u", "3", "2">>, <<"u", "6", "4">>,
     <<"s">>, <<"u">>, <<"s", "3">>, <<"i", "3", "2">>, <<"s", "1", "2", "8">>,
     <<"u", "6", "4", "x">>, <<"S", "3", "2">>, <<"_">>, <<"_", "1">>,
     <<"b", "o", "o", "l">>, <<"s", "0", "8">>, <<"x">>}
LiteralEnds == {<<>>, <<" ">>, <<"\n">>}
LiteralSources ==
    {d \o sfx \o e : d \in LiteralDigits, sfx \in LiteralSuffixes, e \in LiteralEnds}

\* runs of digits around u64::MAX: 2^64, 10^20 and 0 before 2^32 - 1
LongDigits ==
    {<<"1", "8", "4", "4", "6", "7", "4", "4", "0", "7",
       "3", "7", "0", "9", "5", "5", "1", "6", "1", "6">>,
     <<"1", "0", "0", "0", "0", "0", "0", "0", "0", "0", "0",
       "0", "0", "0", "0", "0", "0", "0", "0", "0", "0">>,
     <<"0", "0", "0", "0", "0", "0", "0", "0", "0", "0", "0", "0",
       "2", "1", "4", "7", "4", "8", "3", "6", "4", "7">>}
LongSources ==
    {d \o sfx \o e : d \in LongDigits, sfx \in {<<>>, <<"u", "6", "4">>},
                     e \in {<<>>, <<" ", "1">>}}

\* operators, names and digits next to each other
OperatorChars == {"-", ">", "<", "=", "&", "1", "a", " "}
OperatorSources == UNION {[1..k -> OperatorChars] : k \in 0..MaxText}

Sources == CommentSources \cup LiteralSources \cup LongSources \cup OperatorSources

InitLex ==
    /\ source \in Sources
    /\ lexer = LexerNew(source)
    /\ toks = <<>>
    /\ pc = "lexing"
    /\ parsed = NoneV
    /\ ast = NoneV
    /\ union_find = NoneV
    /\ error = NoneV
    /\ mir = NoneV

NextToken ==
    /\ pc = "lexing"
    /\ lexer' = Lexer_next_token(lexer).l
    /\ IF Lexer_next_token(lexer).l.panic # NoneV
       THEN /\ error' = Lexer_next_token(lexer).l.panic
            /\ pc' = "panicked"
            /\ toks' = toks
       ELSE IF Lexer_next_token(lexer).ok
       THEN /\ toks' = Append(toks, Lexer_next_token(lexer).tok)
            /\ pc' = IF Lexer_next_token(lexer).tok = Kw("Eof") THEN "eof" ELSE "lexing"
            /\ error' = error
       ELSE /\ error' = Lexer_next_token(lexer).err
            /\ pc' = "failed"
            /\ toks' = toks
    /\ UNCHANGED <<source, parsed, ast, union_find, mir>>

\* the parser, at an expression, over the tokens the lexer delivered
ParseTokens ==
    /\ pc = "eof"
    /\ parsed' = parse_expr(ParserNew)
    /\ pc' = "parse_expr"
    /\ UNCHANGED <<source, lexer, toks, ast, union_find, error, mir>>

NextLex == NextToken \/ ParseTokens

SpecLex == InitLex /\ [][NextLex]_vars

(***************************************************************************)
(* Compiler inputs: functions `fn main(x: s32, b: bool) -> R { ... }` as   *)
(* the parser's constructors build them, in a program that also declares   *)
(* f(s32) -> s32, g() -> bool and p(s32, bool).  `v` is a name only a      *)
(* `let` can bind, and no function is named h.                             *)
(***************************************************************************)
AstFunction(name, args, ret_ty, body) ==
    [name |-> name, args |-> args, ret_ty |-> ret_ty, body |-> body]

FnTypes ==
    [n \in {"f", "g", "p"} |->
        CASE n = "f" -> [input |-> <<TySInt(32)>>, output |-> TySInt(32)]
          [] n = "g" -> [input |-> <<>>, output |-> TyBool]
          [] n = "p" -> [input |-> <<TySInt(32), TyBool>>, output |-> TyUnit]]

MainArgs == <<[name |-> "x", ty |-> TySInt(32)], [name |-> "b", ty |-> TyBool]>>
RetTys == {TySInt(32), TyBool, TyUnit}

One == ExprIntLit(1)
Atoms ==
    {One, ExprIntLitWithTy(2, TyUInt(8)), ExprBoolLit(TRUE), ExprUnitLit,
     ExprVar("x"), ExprVar("b"), ExprVar("v")}
Operands == {One, ExprVar("x"), ExprVar("b"), ExprVar("v")}
Unaries ==
    {ExprNeg(o) : o \in Operands} \cup {ExprPos(o) : o \in Operands}
        \cup {ExprNot(o) : o \in Operands}
        \cup {ExprRef(ExprVar("x")), ExprNeg(ExprIntLitWithTy(2, TyUInt(8)))}
        \cup {ExprPos(ExprIntLitWithTy(2, TyUInt(8))), ExprNot(ExprIntLitWithTy(2, TyUInt(8))),
              ExprPos(ExprUnitLit), ExprNeg(ExprUnitLit), ExprNot(ExprUnitLit),
              ExprPos(ExprRef(ExprVar("x"))), ExprNeg(ExprRef(ExprVar("x"))),
              ExprNot(ExprRef(ExprVar("x")))}
Binaries ==
    {ExprBinop(op, l, r) :
        op \in {"Plus", "LessThan", "AndAnd", "OrOr"}, l \in Operands, r \in Operands}
Returns == {ExprRet(a) : a \in Atoms}
Calls ==
    {ExprCall("f", <<o>>) : o \in Operands}
        \cup {ExprCall("g", <<>>), ExprCall("f", <<>>), ExprCall("h", <<>>)}
        \cup {ExprCall("p", <<l, r>>) :
                 l \in {One, ExprVar("b"), ExprVar("v")}, r \in Operands}
        \cup {ExprCall("f", <<ExprVar("v"), One>>), ExprCall("g", <<ExprVar("v")>>),
              ExprCall("h", <<ExprVar("v")>>)}
Assigns ==
    {ExprAssign(n, o) : n \in {"v", "x"}, o \in {One, ExprVar("b")}}
Simple == Atoms \cup Unaries \cup Binaries \cup Returns \cup Calls \cup Assigns

\* the blocks of the generated `if`s and nested blocks
BranchStmts ==
    {<<>>, <<StmtExpr(ExprRet(One))>>, <<StmtExpr(ExprRet(ExprBoolLit(TRUE)))>>,
     <<StmtLet("v", TyInfer, One)>>}
BranchValues ==
    {NoneV, One, ExprVar("x"), ExprVar("b"), ExprVar("v"), ExprRet(One)}
Branches == {MkBlock(ss, e) : ss \in BranchStmts, e \in BranchValues}

Ifs ==
    {ExprIfElse(c, t, e) :
        c \in {ExprVar("b"), ExprBinop("LessThan", ExprVar("x"), One)},
        t \in Branches, e \in Branches}
Blocks == {ExprBlock(blk) : blk \in Branches}

\* an `if` whose branch value is itself an `if` or a block
InnerValues == {One, ExprVar("b"), ExprRet(One)}
Nested ==
    {ExprIfElse(ExprVar("b"),
                BlockExpr(ExprIfElse(ExprVar("b"), BlockExpr(t), BlockExpr(e))),
                BlockExpr(o)) :
        t \in InnerValues, e \in InnerValues, o \in InnerValues}
      \cup
    {ExprIfElse(ExprVar("b"), BlockExpr(ExprBlock(MkBlock(ss, t))), BlockExpr(o)) :
        ss \in BranchStmts, t \in InnerValues, o \in InnerValues}

\* operators over a return, an `if` or a block
Inners ==
    {ExprRet(One), ExprRet(ExprBoolLit(TRUE)),
     ExprIfElse(ExprVar("b"), BlockExpr(One), BlockExpr(ExprVar("x"))),
     ExprBlock(BlockExpr(ExprVar("b")))}
Composite ==
    {ExprBinop(op, l, r) :
        op \in {"Plus", "LessThan", "AndAnd", "OrOr"},
        l \in Inners \cup {ExprVar("x"), ExprVar("b")}, r \in Inners}
      \cup {ExprNeg(i) : i \in Inners} \cup {ExprNot(i) : i \in Inners}
      \cup {ExprRet(i) : i \in Inners} \cup {ExprCall("f", <<i>>) : i \in Inners}
      \cup {ExprAssign("v", i) : i \in Inners}

\* short-circuit operators over a parameter, a call, a comparison, a return
ShortCircuitOperands ==
    {ExprVar("b"), ExprCall("g", <<>>), ExprBinop("LessThan", ExprVar("x"), One),
     ExprRet(ExprBoolLit(TRUE))}
ShortCircuits ==
    {ExprBinop(op, l, r) :
        op \in {"AndAnd", "OrOr"}, l \in ShortCircuitOperands,
        r \in ShortCircuitOperands}

Exprs == Simple \cup Ifs \cup Blocks \cup Nested \cup Composite \cup ShortCircuits

\* a body around one expression: as the value, as a statement, or bound
ExprBodies ==
    {BlockExpr(e) : e \in Exprs}
      \cup {MkBlock(<<StmtExpr(e)>>, NoneV) : e \in Exprs}
      \cup {MkBlock(<<StmtLet("v", TyInfer, e)>>, ExprVar("v")) : e \in Exprs}

\* bodies of up to MaxStmts statements
StmtPool ==
    {StmtLet("v", TyInfer, One), StmtLet("v", TySInt(32), ExprVar("x")),
     StmtLet("v", TyInfer, NoneV), StmtLet("v", TyInfer, ExprVar("v")),
     StmtLet("v", TyRef(TySInt(32)), ExprRef(ExprVar("x"))),
     StmtExpr(ExprAssign("v", One)), StmtExpr(ExprAssign("v", ExprBoolLit(TRUE))),
     StmtExpr(ExprRet(One)), StmtExpr(ExprRet(ExprUnitLit)),
     StmtExpr(ExprVar("x")),
     StmtExpr(ExprIfElse(ExprVar("b"), MkBlock(<<StmtExpr(ExprRet(One))>>, NoneV),
                         MkBlock(<<>>, NoneV))),
     StmtExpr(ExprBlock(MkBlock(<<StmtExpr(ExprRet(One))>>, NoneV)))}
StmtValues == {NoneV, One, ExprVar("v"), ExprVar("x"), ExprVar("b"), ExprRet(One)}
StmtBodies ==
    UNION {{MkBlock(ss, e) : ss \in [1..k -> StmtPool], e \in StmtValues} :
              k \in 0..MaxStmts}

\* fn main() { return true; } and fn main() -> s32 { return 42; } of tests.rs
WrongReturnMain ==
    AstFunction("main", <<>>, TyUnit,
                MkBlock(<<StmtExpr(ExprRet(ExprBoolLit(TRUE)))>>, NoneV))
SimpleMain ==
    AstFunction("main", <<>>, TySInt(32), MkBlock(<<StmtExpr(ExprRet(One))>>, NoneV))

\* fn main() -> s32 { return if 1 > 2 {1} else {2}; } of tests.rs
SimpleReturnIf ==
    AstFunction("main", <<>>, TySInt(32),
        MkBlock(<<StmtExpr(ExprRet(
                    ExprIfElse(ExprBinop("GreaterThan", ExprIntLit(1), ExprIntLit(2)),
                               BlockExpr(ExprIntLit(1)), BlockExpr(ExprIntLit(2)))))>>,
                NoneV))

\* bodies in which a statement that is not itself a `return` diverges, with
\* statements and a value after it; the same as the then-branch of an if
DivergingStmts ==
    {StmtLet("v", TyInfer, ExprRet(One)),
     StmtExpr(ExprBinop("Plus", ExprVar("x"), ExprRet(One))),
     StmtExpr(ExprCall("f", <<ExprRet(One)>>)),
     StmtExpr(ExprAssign("x", ExprRet(One))),
     StmtExpr(ExprBlock(MkBlock(<<StmtExpr(ExprRet(One))>>, NoneV)))}
LaterStmts ==
    {<<>>, <<StmtLet("v", TyInfer, One)>>, <<StmtExpr(ExprCall("f", <<ExprVar("x")>>))>>}
DivergingBlocks ==
    {MkBlock(<<d>> \o l, e) :
        d \in DivergingStmts, l \in LaterStmts, e \in {NoneV, ExprVar("x"), One}}
DivergingBodies ==
    DivergingBlocks
      \cup {BlockExpr(ExprIfElse(ExprVar("b"), body, BlockExpr(ExprVar("x")))) :
               body \in DivergingBlocks}

\* operations over operands whose translation leaves a trace: calls and
\* returns
OrderOperands ==
    {ExprVar("x"), ExprCall("f", <<ExprVar("x")>>), ExprCall("f", <<One>>),
     ExprRet(One), ExprRet(ExprCall("f", <<ExprVar("x")>>))}
OrderExprs ==
    {ExprBinop(op, l, r) : op \in {"Plus", "LessThan"}, l \in OrderOperands,
                           r \in OrderOperands}
      \cup {ExprCall("p", <<l, r>>) :
               l \in OrderOperands,
               r \in {ExprVar("b"), ExprCall("g", <<>>), ExprRet(One),
                      ExprRet(ExprUnitLit)}}
      \cup {ExprCall("p", <<ExprRet(ExprUnitLit), ExprCall("g", <<>>)>>)}
OrderBodies == {BlockExpr(e) : e \in OrderExprs}

\* assignments to a local and to a parameter, after `let v: s32 = x;`
AssignBodies ==
    {MkBlock(<<StmtLet("v", TySInt(32), ExprVar("x"))>>, ExprAssign(n, o)) :
        n \in {"v", "x", "b", "w"}, o \in {One, ExprVar("v"), ExprVar("b")}}

\* a let whose initializer mentions the name it binds
SelfLetBodies ==
    {MkBlock(<<StmtLet("x", TyInfer, ExprVar("x"))>>, e) : e \in {NoneV, ExprVar("x")}}
      \cup {MkBlock(<<StmtLet("v", TyInfer, ExprVar("b")), StmtLet("v", TyInfer, ExprVar("v"))>>,
                    ExprVar("v"))}

\* a let in a nested block or a branch, and a use of its name after it
ScopeInners ==
    {ExprIfElse(ExprVar("b"), MkBlock(<<StmtLet("v", TyInfer, One)>>, NoneV),
                MkBlock(<<>>, NoneV)),
     ExprBlock(MkBlock(<<StmtLet("v", TyInfer, ExprVar("x"))>>, NoneV)),
     ExprIfElse(ExprVar("b"), MkBlock(<<>>, NoneV),
                MkBlock(<<StmtExpr(ExprBinop("Plus", ExprVar("x"), ExprRet(One))),
                          StmtLet("v", TyInfer, One)>>, NoneV))}
ScopeBodies ==
    {MkBlock(pre \o <<StmtExpr(inner)>>, ExprVar("v")) :
        pre \in {<<>>, <<StmtLet("v", TyInfer, ExprVar("b"))>>},
        inner \in ScopeInners}

Functions ==
    {AstFunction("main", MainArgs, r, body) :
        r \in RetTys,
        body \in ExprBodies \cup StmtBodies \cup DivergingBodies \cup OrderBodies
                  \cup AssignBodies \cup SelfLetBodies \cup ScopeBodies}
      \cup {WrongReturnMain, SimpleMain, SimpleReturnIf}

(***************************************************************************)
(* The compiler specification: a parsed function is type checked in two    *)
(* phases and then translated; an error or a panic ends the compilation.   *)
(***************************************************************************)
InitCompile ==
    /\ source = <<>>
    /\ lexer = NoneV
    /\ toks = <<>>
    /\ parsed = NoneV
    /\ pc = "parsed"
    /\ ast \in Functions
    /\ union_find = UnionFindNew
    /\ error = NoneV
    /\ mir = NoneV

\* phase 1 on the function's body, against its return type
typeck(fun) ==
    typeck_block(fun.body, fun.ret_ty, [uf |-> UnionFindNew, variables |-> <<>>],
                 fun, FnTypes)

Typeck ==
    /\ pc = "parsed"
    /\ pc' = IF typeck(ast).ok THEN "unified" ELSE "failed"
    /\ ast' = IF typeck(ast).ok THEN [ast EXCEPT !.body = typeck(ast).e] ELSE ast
    /\ union_find' = typeck(ast).c.uf
    /\ error' = typeck(ast).err
    /\ UNCHANGED <<source, lexer, toks, parsed, mir>>

\* phase 2 on the function's body
Finalize ==
    /\ pc = "unified"
    /\ pc' = IF finalize_block_ty(ast.body, union_find, ast).ok THEN "finalized" ELSE "failed"
    /\ ast' = [ast EXCEPT !.body = finalize_block_ty(ast.body, union_find, ast).e]
    /\ error' = finalize_block_ty(ast.body, union_find, ast).err
    /\ UNCHANGED <<source, lexer, toks, parsed, union_find, mir>>

\* the body translated into the entry block of a new mir::Function; a live
\* continuation is finished with the body's value
translate_function(fun) ==
    translate_block(fun.body, EntryBlock,
        [raw |-> new_function(fun.ret_ty, [k \in 1..Len(fun.args) |-> fun.args[k].ty]),
         locals |-> <<>>],
        fun, FnTypes)

Translate ==
    /\ pc = "finalized"
    /\ pc' = IF translate_function(ast).ok THEN "translated" ELSE "panicked"
    /\ mir' = IF translate_function(ast).ok /\ translate_function(ast).blk # NoneV
              THEN [translate_function(ast) EXCEPT !.m.raw =
                       finish(@, translate_function(ast).blk, translate_function(ast).v)]
              ELSE translate_function(ast)
    /\ error' = translate_function(ast).ice
    /\ UNCHANGED <<source, lexer, toks, parsed, ast, union_find>>

NextCompile == Typeck \/ Finalize \/ Translate

SpecCompile == InitCompile /\ [][NextCompile]_vars

(***************************************************************************)
(* Shapes of parsed expressions.                                           *)
(***************************************************************************)
IsChain == toks \in OperandChains

\* the tokens of a parenthesis-free tree of Binops over variables, in order
RECURSIVE Inorder(_)
Inorder(e) ==
    IF e.kind = "Binop" THEN Inorder(e.lhs) \o <<Operand(e.op)>> \o Inorder(e.rhs)
    ELSE IF e.kind = "Variable" THEN <<Ident(e.name)>>
    ELSE <<NoTok>>

RECURSIVE OpsOf(_)
OpsOf(e) ==
    IF e.kind = "Binop" THEN OpsOf(e.lhs) \cup {e.op} \cup OpsOf(e.rhs) ELSE {}

\* every Binop binds tighter operators below it, and equal ones only on the left
RECURSIVE PrecedenceShaped(_)
PrecedenceShaped(e) ==
    e.kind = "Binop" =>
        /\ \A o \in OpsOf(e.rhs) : precedence(o) > precedence(e.op)
        /\ \A o \in OpsOf(e.lhs) : precedence(o) >= precedence(e.op)
        /\ PrecedenceShaped(e.lhs)
        /\ PrecedenceShaped(e.rhs)

\* (((a op1 b) op2 c) ...) for the first n tokens of the input
RECURSIVE LeftFold(_)
LeftFold(n) ==
    IF n = 1 THEN ExprVar(toks[1].s)
    ELSE ExprBinop(toks[n - 1].s, LeftFold(n - 2), ExprVar(toks[n].s))

EqualPrecedenceChain ==
    /\ IsChain
    /\ \A i, j \in 1..Len(toks) :
          (i % 2 = 0 /\ j % 2 = 0) => precedence(toks[i].s) = precedence(toks[j].s)

\* C1: parse_expr builds, for every parenthesis-free operand chain, the AST
\* the precedence table determines with all operators left-associative: the
\* operands and operators stay in source order, the right operand of a Binop
\* holds only operators of strictly higher precedence and the left operand
\* only operators of higher or equal precedence.
C1_PrecedenceClimbing ==
    (pc = "parse_expr" /\ IsChain) =>
        /\ parsed.ok
        /\ Inorder(parsed.val) = toks
        /\ PrecedenceShaped(parsed.val)

\* C2: a chain of equal-precedence operators parses as the left fold
\* (((a op1 b) op2 c) ...), for every length of the chain.
C2_EqualPrecedenceFoldsLeft ==
    (pc = "parse_expr" /\ EqualPrecedenceChain) =>
        /\ parsed.ok
        /\ parsed.val = LeftFold(Len(toks))

C2_Witness ==
    /\ pc = "parse_expr"
    /\ toks = ChainOf(<<"Minus", "Plus", "Minus">>, 3)
    /\ parsed.ok
    /\ parsed.val.lhs.lhs = ExprBinop("Minus", ExprVar("a"), ExprVar("b"))

HasElseIf ==
    \E k \in 1..Len(toks) - 1 :
        toks[k].t = "KeywordElse" /\ toks[k + 1].t = "KeywordIf"

\* C3: an `if` whose `else` is directly followed by another `if` parses, and
\* the else branch of the outer If is a block whose value is the nested If.
C3_ElseIfParses ==
    (pc = "parse_expr" /\ toks \in IfChains /\ HasElseIf) =>
        /\ parsed.ok
        /\ parsed.val.kind = "If"
        /\ parsed.val.else_value.stmts = <<>>
        /\ parsed.val.else_value.expr.kind = "If"

\* C4: fn main() -> s32 { if 1 > 2 {return 1} else {return 2}; } is rejected
\* by the parser with UnexpectedToken whose expected token type is Statement.
C4_FunctionWithoutStatementRejected ==
    (pc = "item" /\ toks = FunctionWithoutStatement) =>
        /\ ~parsed.ok
        /\ parsed.err.kind = "UnexpectedToken"
        /\ parsed.err.expected = TT("Statement")

(***************************************************************************)
(* Shapes of typed function bodies.                                        *)
(***************************************************************************)
\* every Expr node and every Let of an expression / a statement / a block
RECURSIVE ExprNodes(_), StmtNodes(_), BlockNodes(_)
ExprNodes(e) ==
    {e} \cup
    CASE e.kind \in {"Pos", "Neg", "Not", "Ref"} -> ExprNodes(e.inner)
      [] e.kind = "Binop" -> ExprNodes(e.lhs) \cup ExprNodes(e.rhs)
      [] e.kind = "Call" -> UNION {ExprNodes(e.args[k]) : k \in 1..Len(e.args)}
      [] e.kind = "If" ->
           ExprNodes(e.condition) \cup BlockNodes(e.then_value)
               \cup BlockNodes(e.else_value)
      [] e.kind = "Block" -> BlockNodes(e.blk)
      [] e.kind = "Return" -> ExprNodes(e.ret)
      [] e.kind = "Assign" -> ExprNodes(e.src)
      [] OTHER -> {}
StmtNodes(st) ==
    IF st.kind = "Let"
    THEN {st} \cup (IF st.value # NoneV THEN ExprNodes(st.value) ELSE {})
    ELSE ExprNodes(st.e)
BlockNodes(b) ==
    UNION {StmtNodes(b.stmts[k]) : k \in 1..Len(b.stmts)}
        \cup (IF b.expr # NoneV THEN ExprNodes(b.expr) ELSE {})

\* every block of a body, the body included
BlocksOf(body) ==
    {body} \cup {n.then_value : n \in {n \in BlockNodes(body) : n.kind = "If"}}
           \cup {n.else_value : n \in {n \in BlockNodes(body) : n.kind = "If"}}
           \cup {n.blk : n \in {n \in BlockNodes(body) : n.kind = "Block"}}

TypeChecked == pc \in {"finalized", "translated", "panicked"}

IsReturnStmt(st) == st.kind = "Expr" /\ st.e.kind = "Return"
ReturnStmts(b) == {k \in 1..Len(b.stmts) : IsReturnStmt(b.stmts[k])}
FirstReturn(b) == CHOOSE k \in ReturnStmts(b) : \A j \in ReturnStmts(b) : k <= j

\* the nodes of a block that follow its first `return e;`
AfterReturn(b) ==
    IF ReturnStmts(b) = {} THEN {}
    ELSE UNION {StmtNodes(b.stmts[k]) : k \in (FirstReturn(b) + 1)..Len(b.stmts)}
             \cup (IF b.expr # NoneV THEN ExprNodes(b.expr) ELSE {})

HasStatementsAfterReturn(body) ==
    \E b \in BlocksOf(body) :
        /\ ReturnStmts(b) # {}
        /\ FirstReturn(b) < Len(b.stmts) \/ b.expr # NoneV

\* a node no phase has visited: its type is the one its constructor gave it
Untouched(n) ==
    /\ is_infer(n.ty) => n.ty.id = 0
    /\ n.kind \in {"Variable", "Pos", "Neg", "Not", "Ref", "Binop", "Call", "If", "Block"}
           => is_infer(n.ty)

AfterReturnUntouched(body) ==
    \A b \in BlocksOf(body) : \A n \in AfterReturn(b) : Untouched(n)

\* the body without what follows a `return e;` in any of its blocks
RECURSIVE LiveExpr(_), LiveStmt(_), LiveBlock(_)
LiveExpr(e) ==
    CASE e.kind \in {"Pos", "Neg", "Not", "Ref"} -> [e EXCEPT !.inner = LiveExpr(@)]
      [] e.kind = "Binop" -> [e EXCEPT !.lhs = LiveExpr(@), !.rhs = LiveExpr(@)]
      [] e.kind = "Call" ->
           [e EXCEPT !.args = [k \in 1..Len(e.args) |-> LiveExpr(e.args[k])]]
      [] e.kind = "If" ->
           [e EXCEPT !.condition = LiveExpr(@), !.then_value = LiveBlock(@),
                     !.else_value = LiveBlock(@)]
      [] e.kind = "Block" -> [e EXCEPT !.blk = LiveBlock(@)]
      [] e.kind = "Return" -> [e EXCEPT !.ret = LiveExpr(@)]
      [] e.kind = "Assign" -> [e EXCEPT !.src = LiveExpr(@)]
      [] OTHER -> e
LiveStmt(st) ==
    IF st.kind = "Let"
    THEN (IF st.value # NoneV THEN [st EXCEPT !.value = LiveExpr(@)] ELSE st)
    ELSE [st EXCEPT !.e = LiveExpr(@)]
LiveBlock(b) ==
    IF ReturnStmts(b) = {}
    THEN MkBlock([k \in 1..Len(b.stmts) |-> LiveStmt(b.stmts[k])],
                 IF b.expr # NoneV THEN LiveExpr(b.expr) ELSE NoneV)
    ELSE MkBlock([k \in 1..FirstReturn(b) |-> LiveStmt(b.stmts[k])], NoneV)

(***************************************************************************)
(* Claims about the type checker and the translator (SpecCompile).         *)
(***************************************************************************)
\* the function's first statement is `return lit;` with a literal whose type
\* is not the declared return type
ReturnsWrongType ==
    /\ ast.body.stmts # <<>>
    /\ IsReturnStmt(ast.body.stmts[1])
    /\ ast.body.stmts[1].e.ret.kind \in {"BoolLiteral", "UnitLiteral"}
    /\ ast.body.stmts[1].e.ret.ty # ast.ret_ty

\* C5: compiling a function that returns a value of another type than its
\* declared return type fails with IncorrectType { expected: the declared
\* return type, found: the type of the value }.
C5_WrongReturnIsIncorrectType ==
    (pc # "parsed" /\ ReturnsWrongType) =>
        /\ pc = "failed"
        /\ error.kind = "IncorrectType"
        /\ error.expected = ast.ret_ty
        /\ error.found = ast.body.stmts[1].e.ret.ty

\* C6: translating a function that passed both type-check phases never
\* panics: every expression translate is called on has a final type.
C6_TranslateNeverPanics == pc # "panicked"

\* C7: after both phases succeeded, every Expr node and every Let of the
\* body holds a final type.
C7_AllTypesFinal ==
    TypeChecked => \A n \in BlockNodes(ast.body) : is_final_type(n.ty)

\* a Let whose inferred type and whose literal were defaulted to s32, the
\* class of the literal being still unbound in the union-find
C7_Witness ==
    /\ pc = "finalized"
    /\ Len(ast.body.stmts) = 2
    /\ ast.body.stmts[1].kind = "Let"
    /\ ast.body.stmts[1].ty = TySInt(32)
    /\ ast.body.stmts[1].value = [One EXCEPT !.ty = TySInt(32)]
    /\ \E id \in 1..Len(union_find.bind) : union_find.bind[id] = NoneV
    /\ ast.body.stmts[2].kind = "Expr"
    /\ ast.body.stmts[2].e.kind = "If"

Ifs_of(body) == {n \in BlockNodes(body) : n.kind = "If"}
BranchValuesOf(n) ==
    {b.expr : b \in {b \in {n.then_value, n.else_value} : b.expr # NoneV}}

\* C8 (as stated): in a type-checked function, the values of both branches of
\* every If have the type of the If.
C8_BranchTypesEqual ==
    TypeChecked =>
        \A n \in Ifs_of(ast.body) : \A v \in BranchValuesOf(n) : v.ty = n.ty

\* C8 (amended): in a type-checked function, the value of each branch of
\* every If has the type of the If or the type Diverging.
C8_BranchTypesEqualOrDiverging ==
    TypeChecked =>
        \A n \in Ifs_of(ast.body) :
            \A v \in BranchValuesOf(n) : v.ty \in {n.ty, TyDiverging}

\* an If with a diverging then-value and an s32 else-value
C8_Witness ==
    /\ pc = "finalized"
    /\ \E n \in Ifs_of(ast.body) :
          /\ n.then_value.expr # NoneV /\ n.else_value.expr # NoneV
          /\ n.then_value.expr.ty = TyDiverging
          /\ n.else_value.expr.ty = TySInt(32)
          /\ n.ty = TySInt(32)

Returns_of(body) == {n \in BlockNodes(body) : n.kind = "Return"}

\* C9: in a type-checked function F, every Return has type Diverging and its
\* operand has F's declared return type or the type Diverging.
C9_ReturnTypes ==
    TypeChecked =>
        \A n \in Returns_of(ast.body) :
            /\ n.ty = TyDiverging
            /\ n.ret.ty \in {ast.ret_ty, TyDiverging}

\* a function with a return of a value and a return of a return
C9_Witness ==
    /\ pc = "finalized"
    /\ \E n \in Returns_of(ast.body) : n.ret.ty = ast.ret_ty /\ n.ret.kind # "Return"
    /\ \E n \in Returns_of(ast.body) : n.ret.ty = TyDiverging

\* C10: phase 1 leaves what follows a `return e;` in a block unvisited; once
\* phase 1 succeeded, phase 2 on a body with such a block fails, with
\* StatementsAfterReturn unless an error of the code before that point is
\* raised first, and leaves what follows the return unvisited too.
C10_StatementsAfterReturn ==
    [][/\ (pc = "parsed" /\ pc' = "unified") => AfterReturnUntouched(ast'.body)
       /\ (pc = "unified" /\ HasStatementsAfterReturn(ast.body)) =>
             /\ pc' = "failed"
             /\ \/ error' = StatementsAfterReturn
                \/ /\ ~finalize_block_ty(LiveBlock(ast.body), union_find, ast).ok
                   /\ error' = finalize_block_ty(LiveBlock(ast.body), union_find, ast).err
             /\ finalize_block_ty(LiveBlock(ast.body), union_find, ast).ok
                    => error' = StatementsAfterReturn
             /\ AfterReturnUntouched(ast'.body)]_vars

\* `return 1; let v = ...` reported by phase 2, the let still as parsed
C10_Witness ==
    /\ pc = "failed"
    /\ error = StatementsAfterReturn
    /\ Len(ast.body.stmts) = 2
    /\ IsReturnStmt(ast.body.stmts[1])
    /\ ast.body.stmts[1].e.ret.ty = TySInt(32)
    /\ ast.body.stmts[2] \in StmtPool

\* the type phase 2 is to give a node of type t: the representative of t,
\* and s32 where the representative is an integer variable
Resolved(t) ==
    IF find(t, union_find).v = "InferInt"
    THEN [find(t, union_find) EXCEPT !.v = "SInt", !.w = 32, !.id = 0]
    ELSE find(t, union_find)

RECURSIVE ResolvedExpr(_), ResolvedStmt(_), ResolvedBlock(_)
ResolvedExpr(e) ==
    CASE e.kind \in {"Pos", "Neg", "Not", "Ref"} ->
           [e EXCEPT !.ty = Resolved(@), !.inner = ResolvedExpr(@)]
      [] e.kind = "Binop" ->
           [e EXCEPT !.ty = Resolved(@), !.lhs = ResolvedExpr(@), !.rhs = ResolvedExpr(@)]
      [] e.kind = "Call" ->
           [e EXCEPT !.ty = Resolved(@),
                     !.args = [k \in 1..Len(e.args) |-> ResolvedExpr(e.args[k])]]
      [] e.kind = "If" ->
           [e EXCEPT !.ty = Resolved(@), !.condition = ResolvedExpr(@),
                     !.then_value = ResolvedBlock(@), !.else_value = ResolvedBlock(@)]
      [] e.kind = "Block" -> [e EXCEPT !.ty = Resolved(@), !.blk = ResolvedBlock(@)]
      [] e.kind = "Return" -> [e EXCEPT !.ty = Resolved(@), !.ret = ResolvedExpr(@)]
      [] e.kind = "Assign" -> [e EXCEPT !.ty = Resolved(@), !.src = ResolvedExpr(@)]
      [] OTHER -> [e EXCEPT !.ty = Resolved(@)]
ResolvedStmt(st) ==
    IF st.kind = "Let"
    THEN [st EXCEPT !.ty = Resolved(@),
                    !.value = IF @ = NoneV THEN NoneV ELSE ResolvedExpr(@)]
    ELSE [st EXCEPT !.e = ResolvedExpr(@)]
ResolvedBlock(b) ==
    MkBlock([k \in 1..Len(b.stmts) |-> ResolvedStmt(b.stmts[k])],
            IF b.expr = NoneV THEN NoneV ELSE ResolvedExpr(b.expr))

\* the visited nodes whose class is still a generic Infer after phase 1
StaysInfer(body) ==
    {n \in BlockNodes(body) : n.ty.id # 0 /\ find(n.ty, union_find).v = "Infer"}

\* C11: when phase 2 succeeds, every node and every Let whose class is still
\* an unconstrained integer variable gets s32 (and every other node the type
\* its class is bound to); a visited class that is still a generic Infer
\* makes phase 2 fail, with NoActualType when no other error can come first,
\* and NoActualType is only raised for such a class.
C11_IntegerDefault ==
    [][pc = "unified" =>
          /\ pc' = "finalized" => ast'.body = ResolvedBlock(ast.body)
          /\ StaysInfer(ast.body) # {} =>
                /\ pc' = "failed"
                /\ error'.kind \in {"NoActualType", "StatementsAfterReturn",
                                    "UnopUnsupported"}
                /\ (~HasStatementsAfterReturn(ast.body)
                      /\ \A n \in BlockNodes(ast.body) : n.kind \notin {"Pos", "Neg", "Not"})
                       => error' = NoActualType
          /\ error' = NoActualType =>
                \E n \in BlockNodes(ast.body) : find(n.ty, union_find).v = "Infer"]_vars

\* `let v = 1;` in a unit function: v and the literal share a class that is
\* still an unbound integer variable, and both are finalized to s32
C11_Witness ==
    /\ pc = "finalized"
    /\ ast.ret_ty = TyUnit
    /\ ast.body = MkBlock(<<StmtLet("v", TySInt(32), [One EXCEPT !.ty = TySInt(32)])>>,
                          NoneV)
    /\ union_find.bind = <<[TyInferInt EXCEPT !.id = 2], NoneV>>

\* C12: every block of a translated function (the entry block and the
\* then, else and join blocks of every if_else) was given exactly one
\* terminator.
C12_OneTerminatorPerBlock ==
    pc = "translated" =>
        \A k \in 1..Len(mir.m.raw.blocks) : Len(mir.m.raw.blocks[k].term) = 1

\* two if_else with a diverging branch: seven blocks, an If, a Goto and a
\* Return terminator among them
C12_Witness ==
    /\ pc = "translated"
    /\ Len(mir.m.raw.blocks) = 7
    /\ \E n \in Ifs_of(ast.body) : \E v \in BranchValuesOf(n) : v.ty = TyDiverging
    /\ \A t \in {"If", "Goto", "Return"} :
          \E k \in 1..Len(mir.m.raw.blocks) : mir.m.raw.blocks[k].term[1].term = t

(***************************************************************************)
(* Execution of MIR.  An input gives the parameters x and b and the        *)
(* results of the successive calls of g; f returns its argument.  A run    *)
(* ends at a Return terminator, with the memory (lvalue -> value) and the  *)
(* callees called, in order.                                               *)
(***************************************************************************)
RunInputs == [x : {0, 1}, b : BOOLEAN, g : [1..2 -> BOOLEAN]]

\* the result of the next call of callee after `calls`
Oracle(callee, args, calls, in) ==
    IF callee = "g" THEN in.g[Len(SelectSeq(calls, LAMBDA c : c = "g")) + 1]
    ELSE args[1]

BinOpVal(op, l, r) ==
    CASE op = "Plus" -> l + r
      [] op = "Minus" -> l - r
      [] op = "LessThan" -> l < r
      [] op = "GreaterThan" -> l > r
      [] op = "EqualsEquals" -> l = r

UnOpVal(op, i) ==
    CASE op = "Not" -> ~i
      [] op = "Neg" -> 0 - i
      [] op = "Pos" -> i

EvalValue(v, st) == IF v.val = "Const" THEN v.c ELSE st.mem[v.of]

ExecStmt(s, st, in) ==
    IF "rv" \notin DOMAIN s.src
    THEN [st EXCEPT !.mem = insert(@, s.dst, EvalValue(s.src, st))]
    ELSE CASE s.src.rv = "UnOp" ->
                [st EXCEPT !.mem = insert(@, s.dst,
                                          UnOpVal(s.src.op, EvalValue(s.src.inner, st)))]
           [] s.src.rv = "BinOp" ->
                [st EXCEPT !.mem = insert(@, s.dst,
                                          BinOpVal(s.src.op, EvalValue(s.src.lhs, st),
                                                   EvalValue(s.src.rhs, st)))]
           [] s.src.rv = "Call" ->
                [mem |-> insert(st.mem, s.dst,
                                Oracle(s.src.callee,
                                       [k \in 1..Len(s.src.args) |->
                                           EvalValue(s.src.args[k], st)],
                                       st.calls, in)),
                 calls |-> Append(st.calls, s.src.callee),
                 path |-> st.path]

\* the run from the i-th statement of block k on; `path` lists the blocks run
RECURSIVE ExecFrom(_, _, _, _, _)
ExecFrom(raw, k, i, st, in) ==
    IF i <= Len(raw.blocks[k].stmts)
    THEN ExecFrom(raw, k, i + 1, ExecStmt(raw.blocks[k].stmts[i], st, in), in)
    ELSE CASE raw.blocks[k].term[1].term = "Return" -> st
           [] raw.blocks[k].term[1].term = "Goto" ->
                ExecFrom(raw, raw.blocks[k].term[1].target.id, 1,
                         [st EXCEPT !.path = Append(@, raw.blocks[k].term[1].target.id)],
                         in)
           [] raw.blocks[k].term[1].term = "If" ->
                IF EvalValue(raw.blocks[k].term[1].cond, st)
                THEN ExecFrom(raw, raw.blocks[k].term[1].then.id, 1,
                              [st EXCEPT !.path = Append(@, raw.blocks[k].term[1].then.id)],
                              in)
                ELSE ExecFrom(raw, raw.blocks[k].term[1].else.id, 1,
                              [st EXCEPT !.path = Append(@, raw.blocks[k].term[1].else.id)],
                              in)

Run(raw, in) ==
    ExecFrom(raw, EntryBlock.id, 1,
             [mem |-> [lv \in {LvParam(0), LvParam(1)} |->
                          IF lv = LvParam(0) THEN in.x ELSE in.b],
              calls |-> <<>>, path |-> <<EntryBlock.id>>],
             in)

(***************************************************************************)
(* Evaluation of source expressions: the value, whether a `return` was     *)
(* taken (div, the value is then the returned one) and the callees called. *)
(***************************************************************************)
RECURSIVE Evaluable(_)
Evaluable(e) ==
    CASE e.kind \in {"BoolLiteral", "IntLiteral"} -> TRUE
      [] e.kind = "Variable" -> e.name \in {"x", "b"}
      [] e.kind = "Call" -> e.callee = "g"
      [] e.kind = "Not" -> Evaluable(e.inner)
      [] e.kind = "Return" -> Evaluable(e.ret)
      [] e.kind = "Binop" ->
           /\ e.op \in {"Plus", "LessThan", "GreaterThan", "AndAnd", "OrOr"}
           /\ Evaluable(e.lhs) /\ Evaluable(e.rhs)
      [] OTHER -> FALSE

Val(v, calls) == [div |-> FALSE, val |-> v, calls |-> calls]

RECURSIVE Eval(_, _, _)
EvalRhs(e, l, in) ==
    IF l.div THEN l
    ELSE CASE e.op = "AndAnd" -> IF l.val THEN Eval(e.rhs, in, l.calls) ELSE l
           [] e.op = "OrOr" -> IF l.val THEN l ELSE Eval(e.rhs, in, l.calls)
           [] OTHER ->
                IF Eval(e.rhs, in, l.calls).div THEN Eval(e.rhs, in, l.calls)
                ELSE Val(BinOpVal(e.op, l.val, Eval(e.rhs, in, l.calls).val),
                         Eval(e.rhs, in, l.calls).calls)
Eval(e, in, calls) ==
    CASE e.kind \in {"BoolLiteral", "IntLiteral"} -> Val(e.value, calls)
      [] e.kind = "Variable" -> Val(IF e.name = "x" THEN in.x ELSE in.b, calls)
      [] e.kind = "Call" ->
           Val(Oracle(e.callee, <<>>, calls, in), Append(calls, e.callee))
      [] e.kind = "Not" ->
           IF Eval(e.inner, in, calls).div THEN Eval(e.inner, in, calls)
           ELSE [Eval(e.inner, in, calls) EXCEPT !.val = ~@]
      [] e.kind = "Return" -> [Eval(e.ret, in, calls) EXCEPT !.div = TRUE]
      [] e.kind = "Binop" -> EvalRhs(e, Eval(e.lhs, in, calls), in)

\* the function is `fn main(x: s32, b: bool) -> bool { l op r }` with a
\* short-circuit operator op
ShortCircuitBody ==
    /\ ast.ret_ty = TyBool
    /\ ast.body.stmts = <<>>
    /\ ast.body.expr # NoneV
    /\ ast.body.expr.kind = "Binop"
    /\ ast.body.expr.op \in {"AndAnd", "OrOr"}
    /\ Evaluable(ast.body.expr)

\* the translated function computes what the source expression computes
RunsAsSource ==
    \A in \in RunInputs :
        /\ Run(mir.m.raw, in).mem[LvReturn] = Eval(ast.body.expr, in, <<>>).val
        /\ Run(mir.m.raw, in).calls = Eval(ast.body.expr, in, <<>>).calls

\* C13: a type-checked `a && b` / `a || b` is translated, and the MIR
\* returns a AND b / a OR b for all inputs, with a evaluated once, b only
\* when a does not decide the result, and a return in a or b taken exactly
\* when the source takes it.
C13_ShortCircuitPreserved ==
    (TypeChecked /\ pc # "finalized" /\ ShortCircuitBody) =>
        pc = "translated" /\ RunsAsSource

\* the `||` half of C13 alone
OrOrPreserved ==
    (pc = "translated" /\ ShortCircuitBody /\ ast.body.expr.op = "OrOr") => RunsAsSource

\* the function is `{ if c { t } else { e } }` or `{ return if c {t} else {e}; }`
\* over expressions that can be evaluated, c without a return
IfBody ==
    \/ ast.body.stmts = <<>> /\ ast.body.expr # NoneV /\ ast.body.expr.kind = "If"
    \/ /\ Len(ast.body.stmts) = 1 /\ ast.body.expr = NoneV
       /\ IsReturnStmt(ast.body.stmts[1]) /\ ast.body.stmts[1].e.ret.kind = "If"
TheIf == IF ast.body.expr # NoneV THEN ast.body.expr ELSE ast.body.stmts[1].e.ret
EvaluableIf ==
    /\ IfBody
    /\ Evaluable(TheIf.condition)
    /\ \A n \in ExprNodes(TheIf.condition) : n.kind # "Return"
    /\ \A b \in {TheIf.then_value, TheIf.else_value} :
          b.stmts = <<>> /\ b.expr # NoneV /\ Evaluable(b.expr)

\* the branch the source takes on an input
TakenBranch(in) ==
    IF Eval(TheIf.condition, in, <<>>).val THEN TheIf.then_value ELSE TheIf.else_value

WritesOf(block, lv) == {k \in 1..Len(block.stmts) : block.stmts[k].dst = lv}

\* block k is the translation of branch b of TheIf with result temporary t
\* and join block j
BranchTranslated(raw, k, b, t, j) ==
    IF b.expr.ty = TyDiverging
    THEN /\ WritesOf(raw.blocks[k], LvTemp(t)) = {}
         /\ raw.blocks[k].term = <<[term |-> "Return"]>>
    ELSE /\ WritesOf(raw.blocks[k], LvTemp(t)) = {Len(raw.blocks[k].stmts)}
         /\ raw.blocks[k].term = <<[term |-> "Goto", target |-> BlockId(j)]>>

\* C14: an If whose condition does not diverge is translated into an If
\* terminator on then and else blocks, a join block and a result temporary;
\* a branch that does not diverge writes its value to the result temporary
\* once, last, and goes to join; on every run that reaches join the
\* temporary holds the value of the branch the condition selects; the value
\* of the If is the temporary and its continuation is join.
C14_IfTranslation ==
    (pc = "translated" /\ EvaluableIf) =>
        \E t \in 0..(Len(mir.m.raw.temps) - 1) :
            /\ Len(mir.m.raw.blocks) = 4
            /\ mir.m.raw.temps[t + 1] = TheIf.ty
            /\ mir.m.raw.blocks[1].term[1].term = "If"
            /\ mir.m.raw.blocks[1].term[1].then = BlockId(2)
            /\ mir.m.raw.blocks[1].term[1].else = BlockId(3)
            /\ BranchTranslated(mir.m.raw, 2, TheIf.then_value, t, 4)
            /\ BranchTranslated(mir.m.raw, 3, TheIf.else_value, t, 4)
            /\ ast.body.expr # NoneV =>
                  mir.v = value_temp(t, TheIf.ty) /\ mir.blk = BlockId(4)
            /\ \A in \in RunInputs :
                  /\ (\E i \in 1..Len(Run(mir.m.raw, in).path) :
                          Run(mir.m.raw, in).path[i] = 4)
                       => /\ TakenBranch(in).expr.ty # TyDiverging
                          /\ Run(mir.m.raw, in).mem[LvTemp(t)]
                                 = Eval(TakenBranch(in).expr, in, <<>>).val
                  /\ Run(mir.m.raw, in).mem[LvReturn]
                         = Eval(TakenBranch(in).expr, in, <<>>).val

\* fn main() -> s32 { return if 1 > 2 {1} else {2}; } is translated and
\* returns 2 through the else block and join
C14_Witness ==
    /\ pc = "translated"
    /\ ast.args = <<>>
    /\ EvaluableIf
    /\ \A in \in RunInputs :
          /\ Run(mir.m.raw, in).mem[LvReturn] = 2
          /\ Run(mir.m.raw, in).path = <<1, 3, 4>>

\* the function is `{ callee(a1, .., an) }` over variables and literals
CallBody ==
    /\ ast.args = MainArgs
    /\ ast.body.stmts = <<>> /\ ast.body.expr # NoneV /\ ast.body.expr.kind = "Call"
    /\ \A k \in 1..Len(ast.body.expr.args) :
          ast.body.expr.args[k].kind \in {"Variable", "IntLiteral", "BoolLiteral"}

\* whether an argument (a variable or a literal, as parsed) has type pty
ArgOk(a, pty) ==
    CASE a.kind = "Variable" ->
           \E k \in 1..Len(MainArgs) : MainArgs[k].name = a.name /\ MainArgs[k].ty = pty
      [] a.kind = "IntLiteral" -> IF a.ty = TyInferInt THEN is_int(pty) ELSE a.ty = pty
      [] a.kind = "BoolLiteral" -> pty = TyBool

BadArgs(call) ==
    {k \in 1..Len(call.args) : ~ArgOk(call.args[k], FnTypes[call.callee].input[k])}
FirstBadArg(call) == CHOOSE k \in BadArgs(call) : \A j \in BadArgs(call) : k <= j

\* phase 1 failed on the k-th argument of the call
FailsOnArg(call, k, e) ==
    IF call.args[k].kind = "Variable" /\ get_arg(ast, call.args[k].name) = NoneV
    THEN e = UndefinedVariableName(call.args[k].name)
    ELSE /\ e.kind = "CouldNotUnify"
         /\ e.second = FnTypes[call.callee].input[k]
         /\ e.first.v = IF call.args[k].kind = "Variable"
                        THEN get_arg(ast, call.args[k].name).ty.v
                        ELSE call.args[k].ty.v

\* C15: phase 1 on a call of an unknown function fails with
\* FunctionDoesntExist; on a call with another number of arguments than the
\* callee's parameters, with IncorrectNumberOfArguments, whatever the
\* arguments are; otherwise it fails on the first argument, from the left,
\* that has not the type of its parameter; otherwise the call has the
\* callee's return type, which is unified with the expected type.
C15_CallChecks ==
    [][(pc = "parsed" /\ CallBody) =>
          CASE ast.body.expr.callee \notin DOMAIN FnTypes ->
                 /\ pc' = "failed"
                 /\ error' = [kind |-> "FunctionDoesntExist",
                              callee |-> ast.body.expr.callee]
            [] ast.body.expr.callee \in DOMAIN FnTypes
                 /\ Len(FnTypes[ast.body.expr.callee].input) # Len(ast.body.expr.args) ->
                 /\ pc' = "failed"
                 /\ error' = [kind |-> "IncorrectNumberOfArguments",
                              passed |-> Len(ast.body.expr.args),
                              expected |-> Len(FnTypes[ast.body.expr.callee].input),
                              callee |-> ast.body.expr.callee]
            [] OTHER ->
                 IF BadArgs(ast.body.expr) # {}
                 THEN /\ pc' = "failed"
                      /\ FailsOnArg(ast.body.expr, FirstBadArg(ast.body.expr), error')
                 ELSE IF FnTypes[ast.body.expr.callee].output # ast.ret_ty
                 THEN /\ pc' = "failed"
                      /\ error' = CouldNotUnify(FnTypes[ast.body.expr.callee].output,
                                                ast.ret_ty)
                 ELSE /\ pc' = "unified"
                      /\ ast'.body.expr.ty = FnTypes[ast.body.expr.callee].output
                      /\ \A k \in 1..Len(ast.body.expr.args) :
                            find(ast'.body.expr.args[k].ty, union_find')
                                = FnTypes[ast.body.expr.callee].input[k]]_vars

\* p(1, b) in a unit function: both arguments checked, the literal bound to
\* the s32 of the first parameter
C15_Witness ==
    /\ pc = "unified"
    /\ CallBody
    /\ ast.body.expr.callee = "p"
    /\ ast.body.expr.ty = TyUnit
    /\ ast.body.expr.args[1].kind = "IntLiteral"
    /\ ast.body.expr.args[1].ty.v = "InferInt"
    /\ find(ast.body.expr.args[1].ty, union_find) = TySInt(32)
    /\ ast.body.expr.args[2] = [ExprVar("b") EXCEPT !.ty = TyBool]

(***************************************************************************)
(* Block comments.                                                          *)
(***************************************************************************)
\* the characters the lexer has still to read, in order
Rest(l) ==
    [k \in 1..Len(l.readahead) |-> l.readahead[Len(l.readahead) + 1 - k]] \o l.src

StartsComment(text) == Len(text) >= 2 /\ text[1] = "/" /\ text[2] = "*"

\* the index after the `*/` that brings the nesting depth of the comments
\* open at text[i] down to 0; 0 when the text ends before it
RECURSIVE CommentEnd(_, _, _)
CommentEnd(text, i, depth) ==
    IF depth = 0 THEN i
    ELSE IF i > Len(text) THEN 0
    ELSE IF i < Len(text) /\ text[i] = "/" /\ text[i + 1] = "*"
    THEN CommentEnd(text, i + 2, depth + 1)
    ELSE IF i < Len(text) /\ text[i] = "*" /\ text[i + 1] = "/"
    THEN CommentEnd(text, i + 2, depth - 1)
    ELSE CommentEnd(text, i + 1, depth)

\* next_token on the text that follows the comment text starts with
AfterComment(text) ==
    Lexer_next_token(LexerNew(SubSeq(text, CommentEnd(text, 3, 1), Len(text))))

\* C16: next_token on a text that starts with a block comment returns what
\* it returns on the text after the `*/` matching the opener, nested comments
\* counted, and fails with UnclosedComment only when the text ends before
\* that `*/`.
C16_BlockCommentSkipped ==
    [][(pc = "lexing" /\ StartsComment(Rest(eat_whitespace(lexer)))) =>
          IF CommentEnd(Rest(eat_whitespace(lexer)), 3, 1) = 0
          THEN pc' = "failed" /\ error' = UnclosedComment
          ELSE IF AfterComment(Rest(eat_whitespace(lexer))).ok
          THEN /\ pc' # "failed"
               /\ toks' = Append(toks, AfterComment(Rest(eat_whitespace(lexer))).tok)
               /\ Rest(lexer') = Rest(AfterComment(Rest(eat_whitespace(lexer))).l)
          ELSE /\ pc' = "failed"
               /\ error'.kind = AfterComment(Rest(eat_whitespace(lexer))).err.kind]_vars

\* a comment whose body holds no `*` before its `*/` and no `/` at all is
\* skipped as C16 says (this much of C16 holds)
PlainBody(text) ==
    \A k \in 3..Len(text) :
        k < CommentEnd(text, 3, 1) - 2 => text[k] \notin {"*", "/"}
PlainCommentSkipped ==
    [][(pc = "lexing" /\ StartsComment(Rest(eat_whitespace(lexer)))
          /\ CommentEnd(Rest(eat_whitespace(lexer)), 3, 1) # 0
          /\ PlainBody(Rest(eat_whitespace(lexer)))
          /\ AfterComment(Rest(eat_whitespace(lexer))).ok) =>
             /\ pc' # "failed"
             /\ toks' = Append(toks, AfterComment(Rest(eat_whitespace(lexer))).tok)]_vars

(***************************************************************************)
(* Statements of a block.  A generated block is read back as its pieces,   *)
(* and the pieces as the statements the language describes: an expression  *)
(* is an operand and every `- x` after it, a statement ends at its `;`.    *)
(***************************************************************************)
IsBlockInput == toks # <<>> /\ toks[1] = Kw("OpenBrace")

PieceAt(k) ==
    CASE toks[k].t = "KeywordIf" -> "if"
      [] toks[k].t = "OpenBrace" -> "blk"
      [] toks[k].t = "Ident" -> "x"
      [] toks[k].t = "Semicolon" -> "semi"
      [] toks[k].t = "KeywordLet" -> "let"
      [] toks[k].t = "Operand" -> "mx"

\* the pieces of toks from token k up to the closing brace
RECURSIVE PiecesFrom(_)
PiecesFrom(k) ==
    IF k >= Len(toks) THEN <<>>
    ELSE <<PieceAt(k)>> \o PiecesFrom(k + Len(Piece(PieceAt(k))))
PiecesOf == PiecesFrom(2)

\* the expression a piece starts
OperandOf(name) ==
    CASE name = "if" ->
           ExprIfElse(ExprVar("c"), BlockExpr(ExprIntLit(1)), BlockExpr(ExprUnitLit))
      [] name = "blk" -> ExprBlock(BlockExpr(ExprIntLit(2)))
      [] name = "x" -> ExprVar("x")
      [] name = "mx" -> ExprNeg(ExprVar("x"))

\* the index after the expression that starts at ps[i]
RECURSIVE ExprEnd(_, _)
ExprEnd(ps, i) == IF i <= Len(ps) /\ ps[i] = "mx" THEN ExprEnd(ps, i + 1) ELSE i
\* the expression ps[i..j-1]: the operand ps[i] minus x, j - i - 1 times
RECURSIVE ExprOf(_, _, _)
ExprOf(ps, i, j) ==
    IF j = i + 1 THEN OperandOf(ps[i])
    ELSE ExprBinop("Minus", ExprOf(ps, i, j - 1), ExprVar("x"))
\* an `if` or a `{...}` and nothing more
BlockLike(ps, i) == ps[i] \in {"if", "blk"} /\ ExprEnd(ps, i + 1) = i + 1

\* the indices at which an expression starts
ExprStarts(ps) ==
    {i \in 1..Len(ps) : ps[i] \in {"if", "blk", "x"}
                          \/ (ps[i] = "mx" /\ (i = 1 \/ ps[i - 1] \in {"semi", "let"}))}
Unterminated(ps, i) ==
    ExprEnd(ps, i + 1) > Len(ps) \/ ps[ExprEnd(ps, i + 1)] # "semi"

\* the block the pieces from ps[i] on stand for, after the statements `body`
RECURSIVE BlockMeant(_, _, _)
BlockMeant(ps, i, body) ==
    CASE i > Len(ps) -> [ok |-> TRUE, val |-> MkBlock(body, NoneV)]
      [] i <= Len(ps) /\ ps[i] = "semi" -> [ok |-> FALSE, val |-> "UnexpectedToken"]
      [] i <= Len(ps) /\ ps[i] = "let" ->
           BlockMeant(ps, i + 1, Append(body, StmtLet("v", TyInfer, ExprIntLit(1))))
      [] OTHER ->
           IF ~Unterminated(ps, i)
           THEN BlockMeant(ps, ExprEnd(ps, i + 1) + 1,
                           Append(body, StmtExpr(ExprOf(ps, i, ExprEnd(ps, i + 1)))))
           ELSE IF ExprEnd(ps, i + 1) > Len(ps)
           THEN [ok |-> TRUE, val |-> MkBlock(body, ExprOf(ps, i, ExprEnd(ps, i + 1)))]
           ELSE IF BlockLike(ps, i)
           THEN BlockMeant(ps, i + 1, Append(body, StmtExpr(OperandOf(ps[i]))))
           ELSE [ok |-> FALSE, val |-> "ExpectedSemicolon"]

ParsedAsMeant ==
    IF BlockMeant(PiecesOf, 1, <<>>).ok
    THEN parsed.ok /\ parsed.val = BlockMeant(PiecesOf, 1, <<>>).val
    ELSE ~parsed.ok /\ parsed.err.kind = BlockMeant(PiecesOf, 1, <<>>).val

\* C17: a block in which an `if` or `{...}` expression stands without a `;`
\* parses to the block meant: such an expression before the closing brace
\* is the trailing expression, before anything else it is a Stmt::Expr and
\* what follows it is parsed as the next statement.
C17_BlockExprIsStatement ==
    (pc = "parse_block" /\ IsBlockInput
       /\ \E i \in ExprStarts(PiecesOf) :
             BlockLike(PiecesOf, i) /\ Unterminated(PiecesOf, i))
        => ParsedAsMeant

\* `{ if c {1} x }`: the if is the statement, x the trailing expression
C17_Witness ==
    /\ pc = "parse_block" /\ IsBlockInput
    /\ PiecesOf = <<"if", "x">>
    /\ parsed.ok
    /\ parsed.val = MkBlock(<<StmtExpr(OperandOf("if"))>>, ExprVar("x"))

\* `{ {2} }`: the inner block is the trailing expression
TrailingBlockWitness ==
    /\ pc = "parse_block" /\ IsBlockInput
    /\ PiecesOf = <<"blk">>
    /\ parsed.ok
    /\ parsed.val = MkBlock(<<>>, OperandOf("blk"))

\* C18: a block in which an expression other than an `if` or a `{...}`
\* stands without a `;` parses to the block meant: ExpectedSemicolon when a
\* statement or an expression follows it, the trailing expression when the
\* closing brace follows it.
C18_ExpectedSemicolon ==
    (pc = "parse_block" /\ IsBlockInput
       /\ \E i \in ExprStarts(PiecesOf) :
             ~BlockLike(PiecesOf, i) /\ Unterminated(PiecesOf, i))
        => ParsedAsMeant

\* `{ x - x let v = 1; }`: ExpectedSemicolon
C18_Witness ==
    /\ pc = "parse_block" /\ IsBlockInput
    /\ PiecesOf = <<"x", "mx", "let">>
    /\ ~parsed.ok
    /\ parsed.err = ExpectedSemicolon

(***************************************************************************)
(* Integer literals.                                                        *)
(***************************************************************************)
\* the source is digits, then identifier characters, then white space
LeadingDigits(text) ==
    CHOOSE n \in 0..Len(text) :
        /\ \A k \in 1..n : is_integer(text[k])
        /\ n < Len(text) => ~is_integer(text[n + 1])
LiteralEnd(text) ==
    CHOOSE n \in LeadingDigits(text)..Len(text) :
        /\ \A k \in (LeadingDigits(text) + 1)..n : is_ident(text[k])
        /\ n < Len(text) => ~is_ident(text[n + 1])
IsLiteral(text) ==
    /\ LeadingDigits(text) > 0
    /\ \A k \in (LiteralEnd(text) + 1)..Len(text) : is_whitespace(text[k])

RECURSIVE Decimal(_, _)
Decimal(text, n) ==
    IF n = 0 THEN 0 ELSE Decimal(text, n - 1) * 10 + digit_value(text[n])
RECURSIVE Spelled(_, _, _)
Spelled(text, i, j) == IF i > j THEN "" ELSE text[i] \o Spelled(text, i + 1, j)

LiteralValue == Decimal(source, LeadingDigits(source))
LiteralSuffix == Spelled(source, LeadingDigits(source) + 1, LiteralEnd(source))

SuffixTypes ==
    [sfx \in {"s8", "s16", "s32", "s64", "u8", "u16", "u32", "u64"} |->
        CASE sfx = "s8" -> TySInt(8) [] sfx = "s16" -> TySInt(16)
          [] sfx = "s32" -> TySInt(32) [] sfx = "s64" -> TySInt(64)
          [] sfx = "u8" -> TyUInt(8) [] sfx = "u16" -> TyUInt(16)
          [] sfx = "u32" -> TyUInt(32) [] sfx = "u64" -> TyUInt(64)]

\* C19: an integer literal without suffix is an IntLiteral of type InferInt;
\* with one of s8, s16, s32, s64, u8, u16, u32, u64 an IntLiteral of that
\* type; with any other run of identifier characters after its digits the
\* parser returns InvalidSuffix with that run.
C19_IntegerSuffix ==
    (pc = "parse_expr" /\ source # <<>> /\ IsLiteral(source)) =>
        CASE LiteralSuffix = "" ->
               parsed.ok /\ parsed.val = [kind |-> "IntLiteral", value |-> LiteralValue,
                                          ty |-> TyInferInt]
          [] LiteralSuffix \in DOMAIN SuffixTypes ->
               parsed.ok /\ parsed.val = [kind |-> "IntLiteral", value |-> LiteralValue,
                                          ty |-> SuffixTypes[LiteralSuffix]]
          [] OTHER ->
               ~parsed.ok /\ parsed.err = [kind |-> "InvalidSuffix",
                                           suffix |-> LiteralSuffix]

\* 42u16 is an IntLiteral of type u16
C19_Witness ==
    /\ pc = "parse_expr"
    /\ source = <<"4", "2", "u", "1", "6">>
    /\ parsed.ok
    /\ parsed.val = [kind |-> "IntLiteral", value |-> 42, ty |-> TyUInt(16)]

\* 1s128 is refused with its suffix
InvalidSuffixWitness ==
    /\ pc = "parse_expr"
    /\ source = <<"1", "s", "1", "2", "8">>
    /\ ~parsed.ok
    /\ parsed.err = [kind |-> "InvalidSuffix", suffix |-> "s128"]

(***************************************************************************)
(* Finalization, repeated.                                                  *)
(***************************************************************************)
\* C20: finalize_block_ty on the body of a function that was finalized
\* succeeds and returns the body as it is: no type of an expression or of a
\* let changes.
C20_FinalizeIdempotent ==
    pc = "finalized" =>
        /\ finalize_block_ty(ast.body, union_find, ast).ok
        /\ finalize_block_ty(ast.body, union_find, ast).e = ast.body

\* a finalized body with a let whose inferred type and literal were
\* defaulted to s32 through the union-find
C20_Witness ==
    /\ pc = "finalized"
    /\ union_find.bind # <<>>
    /\ \E k \in 1..Len(ast.body.stmts) :
          /\ ast.body.stmts[k] = StmtLet("v", TySInt(32), ExprIntLitWithTy(1, TySInt(32)))
    /\ finalize_block_ty(ast.body, union_find, ast).ok

(***************************************************************************)
(* Divergence in the translation of a block.                                *)
(***************************************************************************)
\* whether the translation of e returns no continuation: e returns, or an
\* operand, an argument, a condition or a source that is translated
\* unconditionally does
RECURSIVE DivergesExpr(_), DivergesBlock(_)
DivergesStmt(st) ==
    IF st.kind = "Let" THEN st.value # NoneV /\ DivergesExpr(st.value)
    ELSE DivergesExpr(st.e)
DivergesExpr(e) ==
    CASE e.kind = "Return" -> TRUE
      [] e.kind \in {"Pos", "Neg", "Not", "Ref"} -> DivergesExpr(e.inner)
      [] e.kind = "Binop" /\ e.op \in {"AndAnd", "OrOr"} -> DivergesExpr(e.lhs)
      [] e.kind = "Binop" -> DivergesExpr(e.lhs) \/ DivergesExpr(e.rhs)
      [] e.kind = "Call" -> \E k \in 1..Len(e.args) : DivergesExpr(e.args[k])
      [] e.kind = "If" -> DivergesExpr(e.condition)
      [] e.kind = "Assign" -> DivergesExpr(e.src)
      [] e.kind = "Block" -> DivergesBlock(e.blk)
      [] OTHER -> FALSE
DivergesBlock(b) ==
    \/ \E k \in 1..Len(b.stmts) : DivergesStmt(b.stmts[k])
    \/ b.expr # NoneV /\ DivergesExpr(b.expr)

DivergingAt(b) == {k \in 1..Len(b.stmts) : DivergesStmt(b.stmts[k])}
FirstDiverging(b) == CHOOSE k \in DivergingAt(b) : \A j \in DivergingAt(b) : k <= j

\* the tree without what follows, in each of its blocks, the first statement
\* that diverges
RECURSIVE CutExpr(_), CutBlock(_)
CutStmt(st) ==
    IF st.kind = "Let"
    THEN IF st.value = NoneV THEN st ELSE [st EXCEPT !.value = CutExpr(st.value)]
    ELSE [st EXCEPT !.e = CutExpr(st.e)]
CutExpr(e) ==
    CASE e.kind \in {"Pos", "Neg", "Not", "Ref"} -> [e EXCEPT !.inner = CutExpr(e.inner)]
      [] e.kind = "Binop" -> [e EXCEPT !.lhs = CutExpr(e.lhs), !.rhs = CutExpr(e.rhs)]
      [] e.kind = "Call" -> [e EXCEPT !.args = [k \in 1..Len(e.args) |-> CutExpr(e.args[k])]]
      [] e.kind = "If" -> [e EXCEPT !.condition = CutExpr(e.condition),
                                    !.then_value = CutBlock(e.then_value),
                                    !.else_value = CutBlock(e.else_value)]
      [] e.kind = "Return" -> [e EXCEPT !.ret = CutExpr(e.ret)]
      [] e.kind = "Assign" -> [e EXCEPT !.src = CutExpr(e.src)]
      [] e.kind = "Block" -> [e EXCEPT !.blk = CutBlock(e.blk)]
      [] OTHER -> e
CutBlock(b) ==
    IF DivergingAt(b) # {}
    THEN MkBlock([k \in 1..FirstDiverging(b) |-> CutStmt(b.stmts[k])], NoneV)
    ELSE MkBlock([k \in 1..Len(b.stmts) |-> CutStmt(b.stmts[k])],
                 IF b.expr = NoneV THEN NoneV ELSE CutExpr(b.expr))

\* the MIR built for a function: its body translated, a live continuation
\* finished with the body's value
Built(fun) ==
    IF translate_function(fun).ok /\ translate_function(fun).blk # NoneV
    THEN [translate_function(fun) EXCEPT !.m.raw =
             finish(@, translate_function(fun).blk, translate_function(fun).v)]
    ELSE translate_function(fun)

\* C21: what follows, in a block, a statement whose translation diverges
\* leaves no trace in the MIR: the function translates to what it translates
\* to without those statements and trailing expressions, locals included,
\* and the translation of a block with such a statement has no continuation.
C21_DivergedStaysDiverged ==
    pc = "translated" =>
        /\ mir = Built([ast EXCEPT !.body = CutBlock(ast.body)])
        /\ DivergingAt(ast.body) # {} => mir.blk = NoneV

\* a body with a let and a value after a statement that diverges
C21_Witness ==
    /\ pc = "translated"
    /\ DivergingAt(ast.body) = {1}
    /\ Len(ast.body.stmts) = 2 /\ ast.body.stmts[2].kind = "Let"
    /\ ast.body.expr # NoneV
    /\ mir.blk = NoneV
    /\ mir.m.raw.locals = <<>>

\* the same in the then-branch of an if
NestedDivergedWitness ==
    /\ pc = "translated"
    /\ ast.body.expr # NoneV /\ ast.body.expr.kind = "If"
    /\ DivergingAt(ast.body.expr.then_value) # {}
    /\ CutBlock(ast.body.expr.then_value) # ast.body.expr.then_value

(***************************************************************************)
(* Order of evaluation.                                                     *)
(***************************************************************************)
\* expressions made of variables, literals, calls, returns and binary
\* operators that are not short-circuit
RECURSIVE Straight(_)
Straight(e) ==
    CASE e.kind \in {"Variable", "IntLiteral", "BoolLiteral", "UnitLiteral"} -> TRUE
      [] e.kind = "Return" -> Straight(e.ret)
      [] e.kind = "Binop" ->
           e.op \notin {"AndAnd", "OrOr"} /\ Straight(e.lhs) /\ Straight(e.rhs)
      [] e.kind = "Call" -> \A k \in 1..Len(e.args) : Straight(e.args[k])
      [] OTHER -> FALSE

\* the operations the evaluation of e performs, in order, evaluating from
\* left to right and stopping at a return: the callee of a call, the
\* operator of a binop, "ret" for a return
RECURSIVE Trace(_), TraceArgs(_, _)
Trace(e) ==
    CASE e.kind = "Return" ->
           IF DivergesExpr(e.ret) THEN Trace(e.ret) ELSE Append(Trace(e.ret), "ret")
      [] e.kind = "Binop" ->
           IF DivergesExpr(e.lhs) THEN Trace(e.lhs)
           ELSE IF DivergesExpr(e.rhs) THEN Trace(e.lhs) \o Trace(e.rhs)
           ELSE Append(Trace(e.lhs) \o Trace(e.rhs), e.op)
      [] e.kind = "Call" ->
           IF DivergesExpr(e) THEN TraceArgs(e, 1)
           ELSE Append(TraceArgs(e, 1), e.callee)
      [] OTHER -> <<>>
TraceArgs(e, k) ==
    IF k > Len(e.args) THEN <<>>
    ELSE IF DivergesExpr(e.args[k]) THEN Trace(e.args[k])
    ELSE Trace(e.args[k]) \o TraceArgs(e, k + 1)

\* the operation a MIR statement performs
Performed(st) ==
    IF st.dst = LvReturn THEN "ret"
    ELSE IF "rv" \notin DOMAIN st.src THEN "copy"
    ELSE IF st.src.rv = "Call" THEN st.src.callee
    ELSE st.src.op
EntryTrace ==
    [k \in 1..Len(mir.m.raw.blocks[1].stmts) |-> Performed(mir.m.raw.blocks[1].stmts[k])]

OrderBody ==
    /\ ast.body.stmts = <<>> /\ ast.body.expr # NoneV
    /\ ast.body.expr.kind \in {"Binop", "Call"}
    /\ Straight(ast.body.expr)

\* C22: the MIR of a binop or a call performs the operations of the operands
\* or arguments from left to right, then the operation itself; when one of
\* them diverges, nothing to its right and not the operation itself is
\* performed and there is no continuation.
C22_LeftToRight ==
    (pc = "translated" /\ OrderBody) =>
        IF DivergesExpr(ast.body.expr)
        THEN mir.blk = NoneV /\ EntryTrace = Trace(ast.body.expr)
        ELSE mir.blk # NoneV /\ EntryTrace = Append(Trace(ast.body.expr), "ret")

\* p(f(x), return ()): f is called, the return is performed, p is not called
C22_Witness ==
    /\ pc = "translated" /\ OrderBody
    /\ ast.body.expr.kind = "Call" /\ ast.body.expr.callee = "p"
    /\ ast.body.expr.args[1].kind = "Call"
    /\ ast.body.expr.args[2].kind = "Return"
    /\ EntryTrace = <<"f", "ret">>
    /\ mir.blk = NoneV

\* f(x) + f(1): the calls in order, then the addition
OrderedBinopWitness ==
    /\ pc = "translated" /\ OrderBody
    /\ ast.body.expr.kind = "Binop"
    /\ EntryTrace = <<"f", "f", "Plus", "ret">>
    /\ mir.m.raw.blocks[1].stmts[1].src.args[1].of = LvParam(0)
    /\ mir.m.raw.blocks[1].stmts[2].src.args[1].val = "Const"

(***************************************************************************)
(* Assignments.                                                             *)
(***************************************************************************)
\* the body is `{ dst = src }` or `{ let v: s32 = x; dst = src }`, src a
\* variable or a literal, in a function that returns ()
AssignBody ==
    /\ ast.args = MainArgs /\ ast.ret_ty = TyUnit
    /\ ast.body.stmts \in {<<>>, <<StmtLet("v", TySInt(32), ExprVar("x"))>>}
    /\ ast.body.expr # NoneV /\ ast.body.expr.kind = "Assign"
    /\ ast.body.expr.src.kind \in {"Variable", "IntLiteral", "BoolLiteral"}

\* the type of the local or the parameter a name stands for at the
\* assignment, NoneV when it stands for neither
IsLocal(name) == name = "v" /\ ast.body.stmts # <<>>
VisibleTy(name) ==
    IF IsLocal(name) THEN TySInt(32)
    ELSE IF get_arg(ast, name) # NoneV THEN get_arg(ast, name).ty
    ELSE NoneV
SrcFits(a, ty) ==
    CASE a.kind = "Variable" -> VisibleTy(a.name) = ty
      [] a.kind = "IntLiteral" -> IF a.ty = TyInferInt THEN is_int(ty) ELSE a.ty = ty
      [] a.kind = "BoolLiteral" -> ty = TyBool

\* C23: phase 1 accepts `dst = src` when dst is a local or a parameter and
\* src has its type, with the assignment of type (); it returns
\* UndefinedVariableName for dst only when dst is neither.
C23_AssignToVisible ==
    [][(pc = "parsed" /\ AssignBody) =>
          /\ (VisibleTy(ast.body.expr.dst) # NoneV
                /\ SrcFits(ast.body.expr.src, VisibleTy(ast.body.expr.dst)))
               => /\ pc' = "unified"
                  /\ ast'.body.expr.ty = TyUnit
                  /\ find(ast'.body.expr.src.ty, union_find')
                        = VisibleTy(ast.body.expr.dst)
          /\ (pc' = "failed" /\ error' = UndefinedVariableName(ast.body.expr.dst))
               => VisibleTy(ast.body.expr.dst) = NoneV]_vars

\* the same for a dst that is a local (this much of C23 holds)
AssignToLocal ==
    [][(pc = "parsed" /\ AssignBody /\ IsLocal(ast.body.expr.dst)
          /\ SrcFits(ast.body.expr.src, TySInt(32)))
          => /\ pc' = "unified"
             /\ ast'.body.expr.ty = TyUnit
             /\ find(ast'.body.expr.src.ty, union_find') = TySInt(32)]_vars
\* and a dst that is neither is refused
AssignToUnknown ==
    [][(pc = "parsed" /\ AssignBody /\ VisibleTy(ast.body.expr.dst) = NoneV)
          => pc' = "failed" /\ error' = UndefinedVariableName(ast.body.expr.dst)]_vars

(***************************************************************************)
(* Unary operators in phase 2.                                              *)
(***************************************************************************)
\* the expression a body is built around: its value, its only statement or
\* the value of its only let
BodyExpr(body) ==
    IF body.stmts = <<>> THEN body.expr
    ELSE IF Len(body.stmts) > 1 THEN NoneV
    ELSE IF body.stmts[1].kind = "Expr" /\ body.expr = NoneV THEN body.stmts[1].e
    ELSE IF body.stmts[1].kind = "Let" /\ body.expr = ExprVar("v")
    THEN body.stmts[1].value
    ELSE NoneV

\* a unary operator over a literal, a variable or a reference to a variable
UnaryBody ==
    /\ BodyExpr(ast.body) # NoneV
    /\ BodyExpr(ast.body).kind \in {"Pos", "Neg", "Not"}
    /\ BodyExpr(ast.body).inner.kind
          \in {"IntLiteral", "BoolLiteral", "UnitLiteral", "Variable", "Ref"}

\* the types the specification lists for an operator
Listed(kind) ==
    CASE kind = "Pos" -> {"SInt", "UInt"}
      [] kind = "Neg" -> {"SInt"}
      [] kind = "Not" -> {"SInt", "UInt", "Bool"}
IsListed(kind, t) == t.refs = 0 /\ t.v \in Listed(kind)
OperatorName(kind) ==
    CASE kind = "Pos" -> "Plus" [] kind = "Neg" -> "Minus" [] kind = "Not" -> "Not"

\* C24: phase 2 succeeds on a unary operator whose resolved type is listed
\* for it (+: SInt, UInt; -: SInt; !: SInt, UInt, Bool) and otherwise
\* returns UnopUnsupported with the operator and the resolved type.
C24_UnopValidated ==
    [][(pc = "unified" /\ UnaryBody
          /\ actual_ty(BodyExpr(ast.body).ty, union_find) # NoneV) =>
          IF IsListed(BodyExpr(ast.body).kind,
                      actual_ty(BodyExpr(ast.body).ty, union_find))
          THEN /\ pc' = "finalized"
               /\ BodyExpr(ast'.body).ty = actual_ty(BodyExpr(ast.body).ty, union_find)
          ELSE /\ pc' = "failed"
               /\ error' = [kind |-> "UnopUnsupported",
                            op |-> OperatorName(BodyExpr(ast.body).kind),
                            inner |-> actual_ty(BodyExpr(ast.body).ty, union_find)]]_vars

\* `-2u8;` is refused with UnopUnsupported { op: Minus, inner: u8 }
C24_Witness ==
    /\ pc = "failed"
    /\ BodyExpr(ast.body) # NoneV
    /\ BodyExpr(ast.body).kind = "Neg"
    /\ BodyExpr(ast.body).inner.kind = "IntLiteral"
    /\ error = [kind |-> "UnopUnsupported", op |-> "Minus", inner |-> TyUInt(8)]
\* `!b`, `+2u8` and `-x` pass phase 2
UnopAcceptedWitness ==
    /\ pc = "finalized"
    /\ BodyExpr(ast.body) # NoneV
    /\ BodyExpr(ast.body).kind \in {"Pos", "Neg", "Not"}
    /\ BodyExpr(ast.body).ty \in {TyBool, TyUInt(8)}
\* `!()` and `+&x` are refused
UnopUnitWitness ==
    /\ pc = "failed"
    /\ error \in {[kind |-> "UnopUnsupported", op |-> "Not", inner |-> TyUnit],
                  [kind |-> "UnopUnsupported", op |-> "Plus", inner |-> TyRef(TySInt(32))]}

(***************************************************************************)
(* The expected type of a block.                                            *)
(***************************************************************************)
\* phase 1 on the statements of the function's body
BodyStmtsOk ==
    typeck_stmts(ast.body, 1, [uf |-> UnionFindNew, variables |-> <<>>], ast, FnTypes).ok

\* a trailing expression whose type is known from the expression alone: a
\* literal, or a parameter that no let of the body shadows (the lets of the
\* generated nested blocks bind v only)
Shadowed(name) ==
    \E k \in 1..Len(ast.body.stmts) :
        ast.body.stmts[k].kind = "Let" /\ ast.body.stmts[k].name = name
KnownTy(e) ==
    CASE e.kind = "BoolLiteral" -> TyBool
      [] e.kind = "UnitLiteral" -> TyUnit
      [] e.kind = "Variable" /\ e.name = "x" /\ ~Shadowed("x") -> TySInt(32)
      [] e.kind = "Variable" /\ e.name = "b" /\ ~Shadowed("b") -> TyBool
      [] OTHER -> NoneV

\* C25: on the body of a function with return type R, phase 1
\*  - unifies the trailing expression with R when no direct statement is a
\*    `return e;`: it succeeds only with the expression's type R,
\*    Diverging or still unbound (an operator over a diverging operand), and
\*    an expression of another type makes it fail;
\*  - with no trailing expression and no direct `return e;` unifies R with
\*    (): it succeeds when R is () and fails with CouldNotUnify otherwise;
\*  - with a direct `return e;` puts no constraint on R: it succeeds whenever
\*    the statements up to the return do.
C25_BlockExpected ==
    [][pc = "parsed" =>
         /\ (ReturnStmts(ast.body) = {} /\ ast.body.expr # NoneV) =>
               /\ pc' = "unified" =>
                     \/ find(ast'.body.expr.ty, union_find') \in {ast.ret_ty, TyDiverging}
                     \/ is_infer(find(ast'.body.expr.ty, union_find'))
               /\ KnownTy(ast.body.expr) # NoneV =>
                     (pc' = "unified" <=>
                          BodyStmtsOk /\ KnownTy(ast.body.expr) = ast.ret_ty)
               /\ (BodyStmtsOk /\ KnownTy(ast.body.expr) \notin {NoneV, ast.ret_ty}) =>
                     error' = CouldNotUnify(KnownTy(ast.body.expr), ast.ret_ty)
         /\ (ReturnStmts(ast.body) = {} /\ ast.body.expr = NoneV) =>
               /\ pc' = "unified" <=> (BodyStmtsOk /\ ast.ret_ty = TyUnit)
               /\ (BodyStmtsOk /\ ast.ret_ty # TyUnit) =>
                     pc' = "failed" /\ error' = CouldNotUnify(TyUnit, ast.ret_ty)
         /\ ReturnStmts(ast.body) # {} =>
               (pc' = "unified" <=> BodyStmtsOk)]_vars

\* `fn main() -> s32 { let v = 1; }`: () against s32
C25_Witness ==
    /\ pc = "failed"
    /\ error = CouldNotUnify(TyUnit, TySInt(32))
    /\ ReturnStmts(ast.body) = {} /\ ast.body.expr = NoneV
    /\ Len(ast.body.stmts) >= 1
\* `fn main() -> s32 { return 1; }` passes phase 1 without a trailing value
ReturnBlockWitness ==
    /\ pc = "unified"
    /\ ast.ret_ty = TySInt(32)
    /\ Len(ast.body.stmts) = 1 /\ IsReturnStmt(ast.body.stmts[1])
    /\ ast.body.expr = NoneV
\* a trailing parameter of the declared return type, after a statement
TrailingWitness ==
    /\ pc = "unified"
    /\ ReturnStmts(ast.body) = {} /\ ast.body.stmts # <<>>
    /\ ast.body.expr # NoneV /\ ast.body.expr.kind = "Variable"
    /\ ast.body.expr.name = "b" /\ ast.ret_ty = TyBool

(***************************************************************************)
(* A let whose initializer mentions the name it binds.                      *)
(***************************************************************************)
\* the body's statements are lets of a literal or a variable: the k-th let
\* makes local k - 1 and the k-th statement of the entry block
LetsOnly(body) ==
    /\ body.stmts # <<>>
    /\ \A k \in 1..Len(body.stmts) :
          /\ body.stmts[k].kind = "Let"
          /\ body.stmts[k].value # NoneV
          /\ body.stmts[k].value.kind \in {"IntLiteral", "Variable"}
SelfLets(body) ==
    {k \in 1..Len(body.stmts) :
        body.stmts[k].value.kind = "Variable"
          /\ body.stmts[k].value.name = body.stmts[k].name}

\* the lets before statement k that bind name
Earlier(body, k, name) == {j \in 1..(k - 1) : body.stmts[j].name = name}
Latest(S) == CHOOSE j \in S : \A i \in S : i <= j
\* the binding of name visible before statement k, and its type
VisibleBefore(body, k, name) ==
    IF Earlier(body, k, name) # {} THEN LvLocal(Latest(Earlier(body, k, name)) - 1)
    ELSE LvParam(get_arg(ast, name).num)
TyBefore(body, k, name) ==
    IF Earlier(body, k, name) # {} THEN body.stmts[Latest(Earlier(body, k, name))].ty
    ELSE get_arg(ast, name).ty

\* C26: in `let x = e;` with e = x, the type checker gives the x of e the
\* type of the binding visible before the let, and the translator reads that
\* same binding: the statement written for the let stores the earlier local
\* or the parameter into the new local.
C26_InitializerBinding ==
    (pc = "translated" /\ LetsOnly(ast.body)) =>
        \A k \in SelfLets(ast.body) :
            /\ ast.body.stmts[k].value.ty
                  = TyBefore(ast.body, k, ast.body.stmts[k].name)
            /\ mir.m.raw.blocks[1].stmts[k].dst = LvLocal(k - 1)
            /\ mir.m.raw.blocks[1].stmts[k].src.val = "Use"
            /\ mir.m.raw.blocks[1].stmts[k].src.of
                  = VisibleBefore(ast.body, k, ast.body.stmts[k].name)

\* the type checker's half of C26 (this much holds)
InitializerTypedBefore ==
    (TypeChecked /\ LetsOnly(ast.body)) =>
        \A k \in SelfLets(ast.body) :
            ast.body.stmts[k].value.ty = TyBefore(ast.body, k, ast.body.stmts[k].name)
\* the translator reads the local the let has just made
InitializerReadsItself ==
    (pc = "translated" /\ LetsOnly(ast.body)) =>
        \A k \in SelfLets(ast.body) :
            mir.m.raw.blocks[1].stmts[k].src.of = LvLocal(k - 1)

(***************************************************************************)
(* Arithmetic operators.                                                    *)
(***************************************************************************)
\* the arithmetic, bitwise and shift Binops of a body none of whose operands
\* diverges
ArithmeticNodes(body) ==
    {n \in BlockNodes(body) :
        /\ n.kind = "Binop"
        /\ n.op \in {"Mul", "Div", "Rem", "Plus", "Minus", "Shl", "Shr", "And", "Xor", "Or"}
        /\ n.lhs.ty # TyDiverging /\ n.rhs.ty # TyDiverging}

\* C27: in a type-checked function, the operands and the result of every
\* arithmetic, bitwise or shift Binop without a diverging operand have one
\* and the same type, and that type is an integer type.
C27_ArithmeticInteger ==
    TypeChecked =>
        \A n \in ArithmeticNodes(ast.body) :
            /\ n.lhs.ty = n.ty /\ n.rhs.ty = n.ty
            /\ n.ty.refs = 0 /\ n.ty.v \in {"SInt", "UInt"}

\* the operands and the result do have one type (this much of C27 holds)
ArithmeticSameType ==
    TypeChecked =>
        \A n \in ArithmeticNodes(ast.body) : n.lhs.ty = n.ty /\ n.rhs.ty = n.ty
\* `b + b` passes both phases with the type bool
ArithmeticOnBool ==
    (TypeChecked /\ ast.body.stmts = <<>> /\ ast.body.expr # NoneV
        /\ ast.body.expr.kind = "Binop" /\ ast.body.expr.op = "Plus")
      => ast.body.expr.ty \in {TySInt(32), TyBool}

(***************************************************************************)
(* The scope of a binding.                                                  *)
(***************************************************************************)
\* The lets a phase works through, in the order in which it enters them into
\* its map.  tc = TRUE is the type checker: it enters a let after its value
\* and goes on after an expression that diverges (the statements after a
\* direct `return e;` are cut off beforehand, with LiveBlock); tc = FALSE is
\* the translator: it enters a let before its value and leaves out what
\* follows a diverging expression, up to the join of the enclosing `if`.
\* a = [lets, live].
RECURSIVE LetsExpr(_, _, _), LetsArgs(_, _, _, _), LetsStmts(_, _, _, _), LetsBlock(_, _, _)
Entered(a, st) == [a EXCEPT !.lets = Append(@, [name |-> st.name, ty |-> st.ty])]
Joined(a) == [a EXCEPT !.live = TRUE]
LetsExpr(e, a, tc) ==
    CASE e.kind \in {"Pos", "Neg", "Not", "Ref"} -> LetsExpr(e.inner, a, tc)
      [] e.kind = "Binop" /\ e.op \in {"AndAnd", "OrOr"} ->
           IF LetsExpr(e.lhs, a, tc).live
           THEN Joined(LetsExpr(e.rhs, LetsExpr(e.lhs, a, tc), tc))
           ELSE LetsExpr(e.lhs, a, tc)
      [] e.kind = "Binop" ->
           IF LetsExpr(e.lhs, a, tc).live
           THEN LetsExpr(e.rhs, LetsExpr(e.lhs, a, tc), tc)
           ELSE LetsExpr(e.lhs, a, tc)
      [] e.kind = "Call" -> LetsArgs(e, 1, a, tc)
      [] e.kind = "If" ->
           IF LetsExpr(e.condition, a, tc).live
           THEN Joined(LetsBlock(e.else_value,
                           Joined(LetsBlock(e.then_value,
                                            LetsExpr(e.condition, a, tc), tc)), tc))
           ELSE LetsExpr(e.condition, a, tc)
      [] e.kind = "Return" -> [LetsExpr(e.ret, a, tc) EXCEPT !.live = tc]
      [] e.kind = "Assign" -> LetsExpr(e.src, a, tc)
      [] e.kind = "Block" -> LetsBlock(e.blk, a, tc)
      [] OTHER -> a
LetsArgs(e, i, a, tc) ==
    IF i > Len(e.args) \/ ~a.live THEN a
    ELSE LetsArgs(e, i + 1, LetsExpr(e.args[i], a, tc), tc)
LetsStmts(b, i, a, tc) ==
    IF i > Len(b.stmts) \/ ~a.live THEN a
    ELSE IF b.stmts[i].kind = "Expr"
    THEN LetsStmts(b, i + 1, LetsExpr(b.stmts[i].e, a, tc), tc)
    ELSE IF b.stmts[i].value = NoneV
    THEN LetsStmts(b, i + 1, Entered(a, b.stmts[i]), tc)
    ELSE IF tc
    THEN LetsStmts(b, i + 1, Entered(LetsExpr(b.stmts[i].value, a, tc), b.stmts[i]), tc)
    ELSE LetsStmts(b, i + 1, LetsExpr(b.stmts[i].value, Entered(a, b.stmts[i]), tc), tc)
LetsBlock(b, a, tc) ==
    IF LetsStmts(b, 1, a, tc).live /\ b.expr # NoneV
    THEN LetsExpr(b.expr, LetsStmts(b, 1, a, tc), tc)
    ELSE LetsStmts(b, 1, a, tc)

LetsOf(body, tc) == LetsBlock(body, [lets |-> <<>>, live |-> TRUE], tc).lets
NamesOf(lets) == {lets[k].name : k \in 1..Len(lets)}
\* the last let of a name
LastOf(lets, name) ==
    CHOOSE k \in 1..Len(lets) :
        /\ lets[k].name = name
        /\ \A j \in (k + 1)..Len(lets) : lets[j].name # name

\* C28: bindings are function-wide.  When phase 1 succeeds, its variables
\* map holds every name a let it went through binds, in a nested block or
\* not, with the type of the last such let; when the translation succeeds,
\* the locals map holds every name a let it went through binds, with the
\* local of the last such let, and every such let has made one local.
C28_FunctionWideBindings ==
    [][/\ (pc = "parsed" /\ pc' = "unified") =>
             /\ DOMAIN typeck(ast).c.variables = NamesOf(LetsOf(LiveBlock(ast'.body), TRUE))
             /\ \A n \in NamesOf(LetsOf(LiveBlock(ast'.body), TRUE)) :
                   typeck(ast).c.variables[n]
                      = LetsOf(LiveBlock(ast'.body), TRUE)[
                            LastOf(LetsOf(LiveBlock(ast'.body), TRUE), n)].ty
       /\ (pc = "finalized" /\ pc' = "translated") =>
             /\ DOMAIN mir'.m.locals = NamesOf(LetsOf(ast.body, FALSE))
             /\ Len(mir'.m.raw.locals) = Len(LetsOf(ast.body, FALSE))
             /\ \A n \in NamesOf(LetsOf(ast.body, FALSE)) :
                   mir'.m.locals[n] = LvLocal(LastOf(LetsOf(ast.body, FALSE), n) - 1)]_vars

\* `let v = b; { let v = x; } v`: the v after the block is the block's v
C28_Witness ==
    /\ pc = "translated"
    /\ Len(ast.body.stmts) = 2
    /\ ast.body.stmts[1].kind = "Let" /\ ast.body.stmts[1].ty = TyBool
    /\ ast.body.stmts[2].kind = "Expr" /\ ast.body.stmts[2].e.kind = "Block"
    /\ ast.body.expr # NoneV /\ ast.body.expr = [ExprVar("v") EXCEPT !.ty = TySInt(32)]
    /\ mir.m.locals = [n \in {"v"} |-> LvLocal(1)]
\* `if b { let v = 1; } else { } v`: the branch's v is read after the if
BranchLetWitness ==
    /\ pc = "translated"
    /\ Len(ast.body.stmts) = 1
    /\ ast.body.stmts[1].kind = "Expr" /\ ast.body.stmts[1].e.kind = "If"
    /\ ast.body.expr # NoneV /\ ast.body.expr.kind = "Variable"
    /\ mir.m.locals = [n \in {"v"} |-> LvLocal(0)]
\* a let after a diverging statement of a branch is type checked and not
\* translated: the v after the if stays the v of before
SkippedLetWitness ==
    /\ pc = "translated"
    /\ Len(ast.body.stmts) = 2
    /\ ast.body.stmts[2].kind = "Expr" /\ ast.body.stmts[2].e.kind = "If"
    /\ Len(ast.body.stmts[2].e.else_value.stmts) = 2
    /\ mir.m.locals = [n \in {"v"} |-> LvLocal(0)]

(***************************************************************************)
(* Integers and the pushback buffer of the lexer (SpecLex).                 *)
(***************************************************************************)
\* what the next call of next_token starts on: the text left after the
\* leading whitespace
Ahead == Rest(eat_whitespace(lexer))

\* C29: no call of next_token panics, and a call that starts on a run of
\* digits returns the Integer token with the decimal value of the whole run
\* and the identifier characters that follow it as the suffix.
C29_NextTokenTotal ==
    [][pc = "lexing" =>
          /\ pc' # "panicked"
          /\ LeadingDigits(Ahead) > 0 =>
                /\ pc' = "lexing"
                /\ toks' = Append(toks,
                       Integer(Decimal(Ahead, LeadingDigits(Ahead)),
                               Spelled(Ahead, LeadingDigits(Ahead) + 1, LiteralEnd(Ahead))))]_vars

\* a run whose number is at most u64::MAX is lexed as C29 says (this much
\* holds)
RunWithinU64 ==
    [][(pc = "lexing" /\ LeadingDigits(Ahead) > 0
          /\ parse_u64_is_ok(SubSeq(Ahead, 1, LeadingDigits(Ahead)))) =>
          /\ pc' = "lexing"
          /\ toks' = Append(toks,
                 Integer(Decimal(Ahead, LeadingDigits(Ahead)),
                         Spelled(Ahead, LeadingDigits(Ahead) + 1, LiteralEnd(Ahead))))]_vars
\* a longer run makes the expect on parse::<u64>() panic
RunAboveU64 ==
    [][(pc = "lexing" /\ LeadingDigits(Ahead) > 0
          /\ ~parse_u64_is_ok(SubSeq(Ahead, 1, LeadingDigits(Ahead)))) =>
          pc' = "panicked"]_vars

\* C30: the pushback buffer holds at most one character, the assertion of
\* ungetc never fails, the pushed-back character and the characters not yet
\* read are the end of the source, and the pushed-back character is what
\* getc returns next, leaving the buffer empty.
C30_ReadaheadAtMostOne ==
    lexer # NoneV =>
        /\ Len(lexer.readahead) <= 1
        /\ lexer.panic # LexerPanic("assertion failed: self.readahead.len() == 0")
        /\ Len(Rest(lexer)) <= Len(source)
        /\ Rest(lexer) = SubSeq(source, Len(source) - Len(Rest(lexer)) + 1, Len(source))
        /\ lexer.readahead # <<>> =>
              /\ getc(lexer).some
              /\ getc(lexer).c = source[Len(source) - Len(lexer.src)]
              /\ getc(lexer).l.readahead = <<>>
              /\ getc(lexer).l.src = lexer.src

\* after `a-` of `a-1`: the 1 read behind the `-` is pushed back
C30_Witness ==
    /\ lexer # NoneV
    /\ source = <<"a", "-", "1">>
    /\ Len(toks) = 2
    /\ lexer.readahead = <<"1">>
    /\ lexer.src = <<>>
\* a literal whose first non-digit is pushed back by the digit loop, read
\* again and pushed back by the suffix loop
TwicePushedWitness ==
    /\ lexer # NoneV
    /\ source = <<"4", "2", " ">>
    /\ Len(toks) = 1
    /\ lexer.readahead = <<" ">>

====
